---- MODULE Spec2Model ----
(***************************************************************************)
(* LifeDebugger: the asynchronous generation-and-enrichment pipeline.      *)
(*                                                                         *)
(* App (src/components/Sidebar.tsx) owns currentPage, currentResult,       *)
(* history, logs and restoredItem.  Home (src/pages/ReportPage.tsx, second *)
(* half) issues broad-analysis requests (handleSearch) and on-demand       *)
(* detail requests (handleItemClick).  ReportPage drains the items lacking *)
(* details (triggerAutoGeneration).  renderPage mounts exactly one page    *)
(* component at a time: leaving a page unmounts its component and drops    *)
(* its local state, but the asynchronous calls it started keep running on  *)
(* the values their closures captured.                                     *)
(*                                                                         *)
(* One action is one synchronous segment of a handler: from the event that *)
(* resumes it (click, response, timer) to its next await.                  *)
(***************************************************************************)
EXTENDS Integers, Sequences, FiniteSets, TLC

\* ---------------------------------------------------------------- bounds
MaxNewItems == 2     \* suggestions in one broad-analysis response
MaxOps      == 3     \* searches, on-demand fetches, restores and drain runs started
MaxFailures == 1     \* errors the remote service returns to drain runs
MaxBatch    == 3     \* items of the document in the single-view scenario
MaxReads    == 1     \* FileReaders loading at one time
MaxCalls    == 3     \* calls of the service functions in the service scenario
MaxExports  == 2     \* PDF exports started in the export scenario
MaxCanvasHeight == 4805  \* height in pixel rows of the canvas html2canvas renders
MinPrintWidth  == 60    \* least width in pixels of the canvas PrintControls renders
MaxPrintWidth  == 70    \* greatest width in pixels of that canvas
MaxPrintHeight == 200   \* height in pixel rows of the canvas PrintControls renders

\* ------------------------------------------------------ program constants
CooldownMs  == 4000
BackoffBase == 12000
BackoffStep == 2000
maxRetries  == 3
\* file.size > 5 * 1024 * 1024
MaxFileBytes == 5 * 1024 * 1024
\* handleDownloadPdf: the clone is rendered 794 px wide at scale 2 and laid out
\* on A4 pages (210 mm x 297 mm) with margins of 20 mm
A4_WIDTH_PX == 794
CanvasScale == 2
PdfWidth    == 210
PdfHeight   == 297
margin      == 20

\* ------------------------------------------------------------------ state
VARIABLES
  currentPage,      \* App: the mounted page
  currentResult,    \* App: the current result document (NullResult = null)
  history,          \* App: sequence of result documents
  logs,             \* App: sequence of log entries
  restoredItem,     \* App: document handed to Home for restoration
  query,            \* Home: text of the input box
  isLoading,        \* Home: a broad-analysis request of this view is pending
  error,            \* Home: displayed error ("" = null)
  loadingItemId,    \* Home: item whose on-demand fetch is pending (0 = null)
  attachment,       \* Home: the staged attachment (NoAttachment = null)
  reads,            \* Home: sizes of the files its FileReaders are loading
  isAutoGenerating, \* ReportPage: drain run active in the mounted view
  genProgress,      \* ReportPage: [current, total]
  statusMessage,    \* ReportPage: status line
  currentResultRef, \* ReportPage: currentResultRef.current of the mounted view
  pendingEffect,    \* ReportPage: effects of the last commit not yet run
  searches,         \* handleSearch calls awaiting analyzeIssue
  clicks,           \* handleItemClick calls awaiting analyzeSpecificItem
  runs,             \* triggerAutoGeneration calls, in start order
  nextUid,          \* next value of crypto.randomUUID()
  batching,         \* the renderer batches state updates made after an await
  apiKey,           \* process.env.API_KEY is set
  serviceCalls,     \* geminiService: the calls of analyzeIssue and analyzeSpecificItem
  isExportingPdf,   \* ReportPage: a PDF export is running
  containers,       \* document.body: off-screen containers of PDF exports
  pdf,              \* ReportPage.handleDownloadPdf: position and pages of the export
  isGeneratingPdf,  \* PrintControls: a PDF export is running
  printPdf          \* PrintControls.handleDownloadPdf: the canvas and the pages of the export

appVars    == <<currentPage, currentResult, history, logs, restoredItem>>
fileVars   == <<attachment, reads>>
homeVars   == <<query, isLoading, error, loadingItemId, fileVars>>
reportVars == <<isAutoGenerating, genProgress, statusMessage, currentResultRef, pendingEffect>>
asyncVars  == <<searches, clicks, runs>>
counters   == <<nextUid>>
serviceVars == <<apiKey, serviceCalls>>
exportVars == <<isExportingPdf, containers, pdf>>
printVars  == <<isGeneratingPdf, printPdf>>
libVars    == <<serviceVars, exportVars, printVars>>
vars == <<appVars, homeVars, reportVars, asyncVars, counters, batching, libVars>>

\* ------------------------------------------------------------- data model
NoDetails == 0

\* the ItemDetails a requester receives: run r is requester r, the c-th
\* on-demand fetch is requester ClickBase + c
ClickBase == 100
Details(requester) == requester

NullResult ==
  [id |-> 0, query |-> "", timestamp |-> 0, suggestions |-> <<>>,
   roastCommentary |-> 0, sources |-> <<>>, promptSuggestion |-> 0, bestModel |-> 0]

Pages == {"home", "report", "history"}

\* Attachment | null; a staged file is known by its size in bytes
NoAttachment == [type |-> "none", size |-> 0]
FileAttachment(size) == [type |-> "file", size |-> size]
LinkAttachment == [type |-> "link", size |-> 0]

\* the files the user may pick: just under, at and just over the ceiling
FileSizes == {MaxFileBytes - 1, MaxFileBytes, MaxFileBytes + 1}

\* query || (attachment ? `Analyzed: ${attachment.name}` : 'Unknown Query')
QueryOf(q, att) ==
  IF q # "" THEN q ELSE IF att # NoAttachment THEN "Analyzed" ELSE "Unknown Query"
QueryTexts == {"", "q"}
\* a query of white space only, and the texts of the blank-query scenario
Space == " "
BlankTexts == QueryTexts \cup {Space}
\* query.trim() on the texts of the model
Trim(q) == IF q = Space THEN "" ELSE q

\* the guard of handleSearch without the trim
BlankNoTrim(q, att) == q = "" /\ att = NoAttachment

\* !query.trim() && !attachment
Blank(q, att) == Trim(q) = "" /\ att = NoAttachment
Outcomes == {"ok", "rate", "err"}

LogEntry(t, m, s) == [type |-> t, message |-> m, subject |-> s]

Event(e, it, ms) == [ev |-> e, item |-> it, ms |-> ms]

RemoveAt(s, k) == [j \in 1..(Len(s) - 1) |-> IF j < k THEN s[j] ELSE s[j + 1]]

\* response.suggestions.map(...) : n fresh items without details
NewSuggestions(first, n) == [j \in 1..n |-> [id |-> first + j - 1, details |-> NoDetails]]

\* the filter that takes every item, with details or without
MissingTakesAll(doc) == doc.suggestions

\* currentResult.suggestions.filter(s => !s.details)
Missing(doc) == SelectSeq(doc.suggestions, LAMBDA s : s.details = NoDetails)

\* suggestions.map(s => s.id === item.id ? { ...s, details } : s)
AttachDetails(doc, itemId, details) ==
  [doc EXCEPT !.suggestions =
     [j \in DOMAIN doc.suggestions |->
        IF doc.suggestions[j].id = itemId
          THEN [doc.suggestions[j] EXCEPT !.details = details]
          ELSE doc.suggestions[j]]]

\* AppendPage that puts the new page before the existing items
AppendPagePrepends(doc, items, resp) ==
  [doc EXCEPT !.suggestions = items \o doc.suggestions,
              !.roastCommentary = resp,
              !.sources = doc.sources \o <<resp>>,
              !.promptSuggestion = resp,
              !.bestModel = resp]

\* the load-more branch of handleSearch
AppendPage(doc, items, resp) ==
  [doc EXCEPT !.suggestions = doc.suggestions \o items,
              !.roastCommentary = resp,
              !.sources = doc.sources \o <<resp>>,
              !.promptSuggestion = resp,
              !.bestModel = resp]

\* NewResult that gives every document the same identity instead of a fresh uuid
NewResultSameId(uid, q, items, resp) ==
  [id |-> 1, query |-> q, timestamp |-> resp, suggestions |-> items,
   roastCommentary |-> resp, sources |-> <<resp>>, promptSuggestion |-> resp,
   bestModel |-> resp]

\* the new-search branch of handleSearch
NewResult(uid, q, items, resp) ==
  [id |-> uid, query |-> q, timestamp |-> resp, suggestions |-> items,
   roastCommentary |-> resp, sources |-> <<resp>>, promptSuggestion |-> resp,
   bestModel |-> resp]

\* addLog that puts the new entry first
AddLogPrepends(l, entry) == <<entry>> \o l

\* App.addLog
AddLog(l, entry) == Append(l, entry)

\* Logs: logs.slice().reverse(), the entries as the log page lists them
LogsView(l) == [k \in DOMAIN l |-> l[Len(l) + 1 - k]]

\* how many entries with message m the activity log holds
CountLog(l, m) == Cardinality({k \in DOMAIN l : l[k].message = m})

\* addToHistory without the findIndex test: always appends
AddToHistoryAppends(hist, result) == Append(hist, result)

\* addToHistory that moves an entry already held to the end
AddToHistoryMovesToEnd(hist, result) ==
  Append(SelectSeq(hist, LAMBDA h : h.id # result.id), result)

\* App.addToHistory
AddToHistory(hist, result) ==
  IF \E k \in DOMAIN hist : hist[k].id = result.id
    THEN LET exists == CHOOSE k \in DOMAIN hist :
                         /\ hist[k].id = result.id
                         /\ \A j \in DOMAIN hist : hist[j].id = result.id => k <= j
         IN [hist EXCEPT ![exists] = result]
    ELSE Append(hist, result)

\* 12000 + (retries * 2000), retries already incremented
WaitTime(retries) == BackoffBase + (retries * BackoffStep)

\* ------------------------------------------------------------ geminiService
\* detailSchema: required: ["analysis", "steps", "risks"]
Fields == {"analysis", "steps", "risks"}

\* response.text of a detail request: empty, not JSON, or a JSON object that
\* holds some of the fields
ResponseTexts ==
  {[kind |-> "empty", fields |-> {}], [kind |-> "invalid", fields |-> {}]}
    \cup {[kind |-> "object", fields |-> F] : F \in SUBSET Fields}

\* the object JSON.parse returns for a JSON object holding the fields F, as a
\* details value: ShapeBase plus one bit per field
ShapeBase == 200
Bit(f) == IF f = "analysis" THEN 1 ELSE IF f = "steps" THEN 2 ELSE 4
Parsed(F) ==
  ShapeBase + (IF "analysis" \in F THEN Bit("analysis") ELSE 0)
            + (IF "steps" \in F THEN Bit("steps") ELSE 0)
            + (IF "risks" \in F THEN Bit("risks") ELSE 0)

\* the fields a details value of that form holds
FieldsOf(d) == {f \in Fields : ((d - ShapeBase) \div Bit(f)) % 2 = 1}

\* the call threw
Thrown == -1

\* analyzeSpecificItem from `const text = response.text` on:
\* if (!text) throw ...; return JSON.parse(text) as GeminiDetailSchema
ParseDetail(text) ==
  IF text.kind = "empty" THEN Thrown
  ELSE IF text.kind = "invalid" THEN Thrown
  ELSE Parsed(text.fields)

\* ------------------------------------------------------------------- Init
\* no export has run
NoExport == [pc |-> "idle", height |-> 0, pages |-> <<>>, saved |-> FALSE, n |-> 0]

\* no export has been made
ExportInit ==
  /\ isExportingPdf = FALSE
  /\ containers = 0
  /\ pdf = NoExport

\* PrintControls before its first export
NoPrint == [pc |-> "idle", width |-> 0, height |-> 0, pages |-> <<>>, saved |-> FALSE, n |-> 0]

PrintInit ==
  /\ isGeneratingPdf = FALSE
  /\ printPdf = NoPrint

\* the credential is configured, no service call and no export has been made
LibInit ==
  /\ apiKey = TRUE
  /\ serviceCalls = <<>>
  /\ ExportInit
  /\ PrintInit

\* App and its views after construction
AppInit ==
  /\ currentPage = "home"
  /\ currentResult = NullResult
  /\ history = <<>>
  /\ logs = <<LogEntry("system", "App initialized", 0)>>
  /\ restoredItem = NullResult
  /\ query = ""
  /\ isLoading = FALSE
  /\ error = ""
  /\ loadingItemId = 0
  /\ attachment = NoAttachment
  /\ reads = <<>>
  /\ isAutoGenerating = FALSE
  /\ genProgress = [current |-> 0, total |-> 0]
  /\ statusMessage = ""
  /\ currentResultRef = NullResult
  /\ pendingEffect = "none"
  /\ searches = <<>>
  /\ clicks = <<>>
  /\ runs = <<>>
  /\ nextUid = 1
  /\ batching \in BOOLEAN

Init == AppInit /\ LibInit

\* calls so far, as the activity log records them
nextResp == 1 + CountLog(logs, "New search") + CountLog(logs, "Loading more")
nClicks == CountLog(logs, "Fetching details for item")
\* searches, on-demand fetches, restores and drain runs started so far
nOps ==
  CountLog(logs, "New search") + CountLog(logs, "Loading more")
  + CountLog(logs, "Fetching details for item")
  + CountLog(logs, "Restored history item")
  + CountLog(logs, "Auto-Generation Started")

nFailures == CountLog(logs, "Quota Exceeded") + CountLog(logs, "Failed to generate")

\* no effect of a committed render is waiting to run
EffectsIdle == pendingEffect = "none" /\ restoredItem = NullResult


\* what the trigger effect of a commit sees: the isAutoGenerating of its render
Seen(gen) == IF gen THEN "busy" ELSE "idle"

\* the effects of ReportPage pending after a commit that changed currentResult;
\* genBefore: isAutoGenerating at the setCurrentResult call, genAfter: at the
\* end of the synchronous segment.  A batching renderer commits once, after the
\* segment; a non-batching one renders at the setCurrentResult call.
EffectAfter(page, genBefore, genAfter) ==
  IF page # "report" THEN "none"
  ELSE IF batching THEN Seen(genAfter) ELSE Seen(genBefore)

\* number of detail requests (analyzeSpecificItem) awaiting their response
Outstanding ==
  Len(clicks) + Cardinality({r \in DOMAIN runs : runs[r].pc = "request"})

\* ---------------------------------------------------- geminiService calls
Fns == {"analyzeIssue", "analyzeSpecificItem"}

\* a call of fn up to `await ai.models.generateContent(...)`: without the
\* credential it throws before the request
ServiceCall(fn) ==
  /\ Len(serviceCalls) < MaxCalls
  /\ serviceCalls' = Append(serviceCalls,
        IF ~apiKey
          THEN [fn |-> fn, pc |-> "thrown", requests |-> 0]
          ELSE [fn |-> fn, pc |-> "awaiting", requests |-> 1])
  /\ UNCHANGED <<appVars, homeVars, reportVars, asyncVars, counters, batching,
                 apiKey, exportVars, printVars>>

\* ServiceRejects that sends the request again instead of rethrowing
ServiceRejectsRetries(c) ==
  /\ c \in DOMAIN serviceCalls
  /\ serviceCalls[c].pc = "awaiting"
  /\ serviceCalls[c].requests <= MaxCalls
  /\ serviceCalls' = [serviceCalls EXCEPT ![c].requests = @ + 1]
  /\ UNCHANGED <<appVars, homeVars, reportVars, asyncVars, counters, batching,
                 apiKey, exportVars, printVars>>

\* generateContent rejected: catch (error) { console.error(...); throw error; }
ServiceRejects(c) ==
  /\ c \in DOMAIN serviceCalls
  /\ serviceCalls[c].pc = "awaiting"
  /\ serviceCalls' = [serviceCalls EXCEPT ![c].pc = "thrown"]
  /\ UNCHANGED <<appVars, homeVars, reportVars, asyncVars, counters, batching,
                 apiKey, exportVars, printVars>>

\* generateContent resolved with text: if (!text) throw ...; return JSON.parse(text)
ServiceResolves(c, text) ==
  /\ c \in DOMAIN serviceCalls
  /\ serviceCalls[c].pc = "awaiting"
  /\ serviceCalls' = [serviceCalls EXCEPT ![c].pc =
                        IF ParseDetail(text) = Thrown THEN "thrown" ELSE "returned"]
  /\ UNCHANGED <<appVars, homeVars, reportVars, asyncVars, counters, batching,
                 apiKey, exportVars, printVars>>

\* ----------------------------------------------------------- Home actions

\* <input onChange={(e) => setQuery(e.target.value)} disabled={isLoading}>
TypeQuery(q) ==
  /\ EffectsIdle
  /\ currentPage = "home"
  /\ ~isLoading
  /\ q # query
  /\ query' = q
  /\ UNCHANGED <<appVars, isLoading, error, loadingItemId, fileVars, reportVars,
                 asyncVars, counters, batching, libVars>>

\* handleSearch up to `await analyzeIssue(...)`
HandleSearch(isLoadMore) ==
  /\ EffectsIdle
  /\ currentPage = "home"
  /\ ~isLoading                                  \* buttons and input are disabled
  /\ isLoadMore => currentResult # NullResult    \* the load-more button is rendered
  /\ ~Blank(query, attachment)                  \* if (!query.trim() && !attachment) return
  /\ nOps < MaxOps
  /\ isLoading' = TRUE
  /\ error' = ""
  /\ logs' = AddLog(logs, LogEntry("info",
                 IF isLoadMore THEN "Loading more" ELSE "New search", 0))
  /\ searches' = Append(searches,
        [isLoadMore |-> isLoadMore, currentResult |-> currentResult,
         query |-> query, attachment |-> attachment, resp |-> nextResp,
         mounted |-> TRUE])
  /\ UNCHANGED <<currentPage, currentResult, history, restoredItem, query,
                 loadingItemId, fileVars, reportVars, clicks, runs, nextUid, batching, libVars>>

\* handleSearch after analyzeIssue returned n suggestions
SearchSucceeds(k, n) ==
  /\ EffectsIdle
  /\ k \in DOMAIN searches
  /\ LET s == searches[k]
         newSuggestions == NewSuggestions(nextUid, n)
         result ==
           IF s.isLoadMore /\ s.currentResult # NullResult
             THEN AppendPage(s.currentResult, newSuggestions, s.resp)
             ELSE NewResult(nextUid + n, QueryOf(s.query, s.attachment),
                            newSuggestions, s.resp)
     IN /\ currentResult' = result
        /\ history' = AddToHistory(history, result)
        /\ nextUid' = IF s.isLoadMore /\ s.currentResult # NullResult
                        THEN nextUid + n ELSE nextUid + n + 1
        /\ logs' = AddLog(logs, LogEntry("system", "Gemini API Success", n))
        /\ isLoading' = IF s.mounted THEN FALSE ELSE isLoading
        /\ pendingEffect' = EffectAfter(currentPage, isAutoGenerating, isAutoGenerating)
  /\ searches' = RemoveAt(searches, k)
  /\ UNCHANGED <<currentPage, restoredItem, query, error, loadingItemId, fileVars,
                 isAutoGenerating, genProgress, statusMessage, currentResultRef,
                 clicks, runs, batching, libVars>>

\* handleSearch when analyzeIssue throws
SearchFails(k) ==
  /\ EffectsIdle
  /\ k \in DOMAIN searches
  /\ error' = IF searches[k].mounted THEN "search" ELSE error
  /\ isLoading' = IF searches[k].mounted THEN FALSE ELSE isLoading
  /\ logs' = AddLog(logs, LogEntry("error", "Analysis Failed", 0))
  /\ searches' = RemoveAt(searches, k)
  /\ UNCHANGED <<currentPage, currentResult, history, restoredItem, query,
                 loadingItemId, fileVars, reportVars, clicks, runs, counters, batching, libVars>>

\* handleItemClick up to `await analyzeSpecificItem(...)`, for the j-th item shown
HandleItemClick(j) ==
  /\ EffectsIdle
  /\ currentPage = "home"
  /\ j \in DOMAIN currentResult.suggestions
  /\ loadingItemId = 0                              \* if (loadingItemId) return
  /\ currentResult.suggestions[j].details = NoDetails   \* else the modal opens
  /\ nOps < MaxOps
  /\ loadingItemId' = currentResult.suggestions[j].id
  /\ logs' = AddLog(logs, LogEntry("info", "Fetching details for item",
                                   currentResult.suggestions[j].id))
  /\ clicks' = Append(clicks,
        [item |-> currentResult.suggestions[j].id, currentResult |-> currentResult,
         req |-> ClickBase + nClicks + 1, mounted |-> TRUE])
  /\ UNCHANGED <<currentPage, currentResult, history, restoredItem, query,
                 isLoading, error, fileVars, reportVars, searches, runs, nextUid,
                 batching, libVars>>

\* handleItemClick after analyzeSpecificItem returned
ItemClickSucceeds(k) ==
  /\ EffectsIdle
  /\ k \in DOMAIN clicks
  /\ LET c == clicks[k]
         updatedResult == AttachDetails(c.currentResult, c.item, Details(c.req))
     IN /\ currentResult' = updatedResult
        /\ history' = AddToHistory(history, updatedResult)
        /\ loadingItemId' = IF c.mounted THEN 0 ELSE loadingItemId
        /\ pendingEffect' = EffectAfter(currentPage, isAutoGenerating, isAutoGenerating)
  /\ clicks' = RemoveAt(clicks, k)
  /\ UNCHANGED <<currentPage, logs, restoredItem, query, isLoading, error, fileVars,
                 isAutoGenerating, genProgress, statusMessage, currentResultRef,
                 searches, runs, counters, batching, libVars>>

\* handleItemClick when analyzeSpecificItem throws
ItemClickFails(k) ==
  /\ EffectsIdle
  /\ k \in DOMAIN clicks
  /\ error' = IF clicks[k].mounted THEN "detail" ELSE error
  /\ loadingItemId' = IF clicks[k].mounted THEN 0 ELSE loadingItemId
  /\ logs' = AddLog(logs, LogEntry("error", "Detail Fetch Failed", clicks[k].item))
  /\ clicks' = RemoveAt(clicks, k)
  /\ UNCHANGED <<currentPage, currentResult, history, restoredItem, query,
                 isLoading, fileVars, reportVars, searches, runs, counters, batching, libVars>>

\* handleFileSelect with >= for >: a file of exactly the ceiling is rejected
HandleFileSelectRejectsCeiling(size) ==
  /\ EffectsIdle
  /\ currentPage = "home"
  /\ IF size >= MaxFileBytes
       THEN /\ error' = "file too large"
            /\ UNCHANGED reads
       ELSE /\ Len(reads) < MaxReads
            /\ reads' = Append(reads, size)
            /\ UNCHANGED error
  /\ UNCHANGED <<appVars, query, isLoading, loadingItemId, attachment, reportVars,
                 asyncVars, counters, batching, libVars>>

\* handleFileSelect: the ceiling test, then reader.readAsDataURL(file)
HandleFileSelect(size) ==
  /\ EffectsIdle
  /\ currentPage = "home"
  /\ IF size > MaxFileBytes
       THEN /\ error' = "file too large"
            /\ UNCHANGED reads
       ELSE /\ Len(reads) < MaxReads
            /\ reads' = Append(reads, size)
            /\ UNCHANGED error
  /\ UNCHANGED <<appVars, query, isLoading, loadingItemId, attachment, reportVars,
                 asyncVars, counters, batching, libVars>>

\* reader.onloadend of the k-th FileReader still loading
FileLoaded(k) ==
  /\ EffectsIdle
  /\ k \in DOMAIN reads
  /\ attachment' = FileAttachment(reads[k])
  /\ error' = ""
  /\ reads' = RemoveAt(reads, k)
  /\ UNCHANGED <<appVars, query, isLoading, loadingItemId, reportVars, asyncVars,
                 counters, batching, libVars>>

\* reader.onloadend after a failed read: reader.result is null, the callback
\* throws at split and stages nothing
FileReadFails(k) ==
  /\ EffectsIdle
  /\ k \in DOMAIN reads
  /\ reads' = RemoveAt(reads, k)
  /\ UNCHANGED <<appVars, query, isLoading, error, loadingItemId, attachment,
                 reportVars, asyncVars, counters, batching, libVars>>

\* handleLinkSubmit with a non-blank linkUrl
HandleLinkSubmit ==
  /\ EffectsIdle
  /\ currentPage = "home"
  /\ attachment # LinkAttachment
  /\ attachment' = LinkAttachment
  /\ UNCHANGED <<appVars, query, isLoading, error, loadingItemId, reads, reportVars,
                 asyncVars, counters, batching, libVars>>

\* the remove button of the attachment preview: setAttachment(null)
RemoveAttachment ==
  /\ EffectsIdle
  /\ currentPage = "home"
  /\ attachment # NoAttachment
  /\ attachment' = NoAttachment
  /\ UNCHANGED <<appVars, query, isLoading, error, loadingItemId, reads, reportVars,
                 asyncVars, counters, batching, libVars>>


\* ------------------------------------------------------------ App actions

\* every pending call of the unmounted Home loses its view
Orphaned(calls) == [k \in DOMAIN calls |-> [calls[k] EXCEPT !.mounted = FALSE]]

\* every run of the unmounted ReportPage keeps the ref object as it was left
Detached(rs, ref) ==
  [r \in DOMAIN rs |->
     IF rs[r].mounted THEN [rs[r] EXCEPT !.mounted = FALSE, !.ref = ref] ELSE rs[r]]

\* WouldTrigger without the test of isAutoGenerating
WouldTriggerIgnoresFlag(doc, seen) ==
  doc # NullResult /\ Missing(doc) # <<>>

\* the trigger effect of a commit would call triggerAutoGeneration
WouldTrigger(doc, seen) ==
  seen = "idle" /\ doc # NullResult /\ Missing(doc) # <<>>

\* setPage(p): renderPage unmounts the current page component and mounts p
Navigate(p) ==
  /\ EffectsIdle
  /\ p \in Pages
  /\ p # currentPage
  /\ (p = "report" /\ WouldTrigger(currentResult, "idle")) => nOps < MaxOps
  /\ currentPage' = p
  /\ IF currentPage = "home"
       THEN /\ searches' = Orphaned(searches)
            /\ clicks' = Orphaned(clicks)
            /\ query' = ""
            /\ isLoading' = FALSE
            /\ error' = ""
            /\ loadingItemId' = 0
            /\ attachment' = NoAttachment
            /\ reads' = <<>>
       ELSE UNCHANGED <<searches, clicks, homeVars>>
  /\ runs' = IF currentPage = "report" THEN Detached(runs, currentResultRef) ELSE runs
  /\ isAutoGenerating' = FALSE
  /\ genProgress' = [current |-> 0, total |-> 0]
  /\ statusMessage' = ""
  /\ currentResultRef' = IF p = "report" THEN currentResult ELSE NullResult
  /\ pendingEffect' = IF p = "report" THEN "idle" ELSE "none"
  /\ isExportingPdf' = FALSE
  /\ isGeneratingPdf' = FALSE
  /\ UNCHANGED <<currentResult, history, logs, restoredItem, counters, batching,
                 serviceVars, containers, pdf, printPdf>>

\* App.handleRestore, from the History page, of the k-th stored document
HandleRestore(k) ==
  /\ EffectsIdle
  /\ currentPage = "history"
  /\ k \in DOMAIN history
  /\ nOps < MaxOps
  /\ restoredItem' = history[k]
  /\ currentResult' = history[k]
  /\ currentPage' = "home"
  /\ logs' = AddLog(logs, LogEntry("info", "Restored history item", history[k].id))
  /\ UNCHANGED <<history, homeVars, reportVars, asyncVars, nextUid, batching, libVars>>

\* the restoration effect without setQuery
HomeRestoreEffectKeepsQuery ==
  /\ currentPage = "home"
  /\ restoredItem # NullResult
  /\ currentResult' = restoredItem
  /\ attachment' = NoAttachment
  /\ restoredItem' = NullResult
  /\ UNCHANGED <<currentPage, history, logs, query, isLoading, error, loadingItemId,
                 reads, reportVars, asyncVars, counters, batching, libVars>>

\* Home's restoration effect
HomeRestoreEffect ==
  /\ currentPage = "home"
  /\ restoredItem # NullResult
  /\ query' = restoredItem.query
  /\ currentResult' = restoredItem
  /\ attachment' = NoAttachment
  /\ restoredItem' = NullResult
  /\ UNCHANGED <<currentPage, history, logs, isLoading, error, loadingItemId, reads,
                 reportVars, asyncVars, counters, batching, libVars>>

\* ------------------------------------------------------ ReportPage actions

\* the item a run is working on: items[i]
ItemOf(run) == run.items[run.i + 1]

\* ReportPage's two effects on [currentResult]: the ref update, then the
\* auto-generation trigger, which runs triggerAutoGeneration up to its first await
ReportEffect ==
  /\ pendingEffect # "none"
  /\ currentResultRef' = currentResult
  /\ pendingEffect' = "none"
  /\ IF WouldTrigger(currentResult, pendingEffect)
       THEN LET items == Missing(currentResult) IN
            /\ isAutoGenerating' = TRUE
            /\ genProgress' = [current |-> 0, total |-> Len(items)]
            /\ statusMessage' = "Analyzing"
            /\ logs' = AddLog(logs, LogEntry("system", "Auto-Generation Started", Len(items)))
            /\ runs' = Append(runs,
                 [items |-> items, i |-> 0, retries |-> 0, pc |-> "request",
                  ref |-> NullResult, mounted |-> TRUE,
                  trace |-> <<Event("req", items[1].id, 0)>>])
       ELSE UNCHANGED <<isAutoGenerating, genProgress, statusMessage, logs, runs>>
  /\ UNCHANGED <<currentPage, currentResult, history, restoredItem, homeVars,
                 searches, clicks, nextUid, batching, libVars>>

\* the run has reached the last item of its batch
LastItem(run) == run.i + 1 >= Len(run.items)

\* FinishItem without the cooldown: the next item is requested at once
FinishItemNoCooldown(r, run, logs1) ==
  IF ~LastItem(run)
    THEN /\ runs' = [runs EXCEPT ![r] =
                       [run EXCEPT !.i = run.i + 1, !.retries = 0, !.pc = "request",
                                   !.trace = Append(run.trace,
                                                    Event("req", run.items[run.i + 2].id, 0))]]
         /\ logs' = logs1
         /\ genProgress' = IF run.mounted
                             THEN [genProgress EXCEPT !.current = run.i + 1]
                             ELSE genProgress
         /\ statusMessage' = IF run.mounted THEN "Analyzing" ELSE statusMessage
         /\ UNCHANGED isAutoGenerating
    ELSE /\ runs' = [runs EXCEPT ![r] =
                       [run EXCEPT !.i = run.i + 1, !.pc = "done", !.retries = 0,
                                   !.ref = NullResult, !.mounted = FALSE]]
         /\ logs' = AddLog(logs1, LogEntry("system", "Generation Queue Complete", 0))
         /\ genProgress' = IF run.mounted
                             THEN [genProgress EXCEPT !.current = run.i + 1]
                             ELSE genProgress
         /\ statusMessage' = IF run.mounted THEN "" ELSE statusMessage
         /\ isAutoGenerating' = IF run.mounted THEN FALSE ELSE isAutoGenerating

\* FinishItem that never clears the generating flag at the end of the run
FinishItemKeepsFlag(r, run, logs1) ==
  IF ~LastItem(run)
    THEN /\ runs' = [runs EXCEPT ![r] =
                       [run EXCEPT !.i = run.i + 1, !.pc = "cooldown",
                                   !.trace = Append(run.trace, Event("wait", 0, CooldownMs))]]
         /\ logs' = logs1
         /\ genProgress' = IF run.mounted
                             THEN [genProgress EXCEPT !.current = run.i + 1]
                             ELSE genProgress
         /\ statusMessage' = IF run.mounted THEN "Cooling down" ELSE statusMessage
         /\ UNCHANGED isAutoGenerating
    ELSE /\ runs' = [runs EXCEPT ![r] =
                       [run EXCEPT !.i = run.i + 1, !.pc = "done", !.retries = 0,
                                   !.ref = NullResult, !.mounted = FALSE]]
         /\ logs' = AddLog(logs1, LogEntry("system", "Generation Queue Complete", 0))
         /\ genProgress' = IF run.mounted
                             THEN [genProgress EXCEPT !.current = run.i + 1]
                             ELSE genProgress
         /\ statusMessage' = IF run.mounted THEN "" ELSE statusMessage
         /\ UNCHANGED isAutoGenerating

\* FinishItem that counts an item as completed only when it succeeded
FinishItemCountsSuccessOnly(r, run, logs1) ==
  LET counted == IF run.trace[Len(run.trace)].ev = "ok"
                   THEN [genProgress EXCEPT !.current = genProgress.current + 1]
                   ELSE genProgress
  IN
  IF ~LastItem(run)
    THEN /\ runs' = [runs EXCEPT ![r] =
                       [run EXCEPT !.i = run.i + 1, !.pc = "cooldown",
                                   !.trace = Append(run.trace, Event("wait", 0, CooldownMs))]]
         /\ logs' = logs1
         /\ genProgress' = IF run.mounted THEN counted ELSE genProgress
         /\ statusMessage' = IF run.mounted THEN "Cooling down" ELSE statusMessage
         /\ UNCHANGED isAutoGenerating
    ELSE /\ runs' = [runs EXCEPT ![r] =
                       [run EXCEPT !.i = run.i + 1, !.pc = "done", !.retries = 0,
                                   !.ref = NullResult, !.mounted = FALSE]]
         /\ logs' = AddLog(logs1, LogEntry("system", "Generation Queue Complete", 0))
         /\ genProgress' = IF run.mounted THEN counted ELSE genProgress
         /\ statusMessage' = IF run.mounted THEN "" ELSE statusMessage
         /\ isAutoGenerating' = IF run.mounted THEN FALSE ELSE isAutoGenerating

\* FinishItem that stays on the item after an error instead of moving on
FinishItemRepeats(r, run, logs1) ==
  IF run.trace[Len(run.trace)].ev = "err"
    THEN /\ runs' = [runs EXCEPT ![r] =
                       [run EXCEPT !.pc = "cooldown",
                                   !.trace = Append(run.trace, Event("wait", 0, CooldownMs))]]
         /\ logs' = logs1
         /\ statusMessage' = IF run.mounted THEN "Cooling down" ELSE statusMessage
         /\ UNCHANGED <<genProgress, isAutoGenerating>>
    ELSE IF ~LastItem(run)
    THEN /\ runs' = [runs EXCEPT ![r] =
                       [run EXCEPT !.i = run.i + 1, !.pc = "cooldown",
                                   !.trace = Append(run.trace, Event("wait", 0, CooldownMs))]]
         /\ logs' = logs1
         /\ genProgress' = IF run.mounted
                             THEN [genProgress EXCEPT !.current = run.i + 1]
                             ELSE genProgress
         /\ statusMessage' = IF run.mounted THEN "Cooling down" ELSE statusMessage
         /\ UNCHANGED isAutoGenerating
    ELSE /\ runs' = [runs EXCEPT ![r] =
                       [run EXCEPT !.i = run.i + 1, !.pc = "done", !.retries = 0,
                                   !.ref = NullResult, !.mounted = FALSE]]
         /\ logs' = AddLog(logs1, LogEntry("system", "Generation Queue Complete", 0))
         /\ genProgress' = IF run.mounted
                             THEN [genProgress EXCEPT !.current = run.i + 1]
                             ELSE genProgress
         /\ statusMessage' = IF run.mounted THEN "" ELSE statusMessage
         /\ isAutoGenerating' = IF run.mounted THEN FALSE ELSE isAutoGenerating

\* end of one iteration of the for loop: setGenProgress, then either the
\* cooldown of the next iteration or the end of the run
FinishItem(r, run, logs1) ==
  IF ~LastItem(run)
    THEN /\ runs' = [runs EXCEPT ![r] =
                       [run EXCEPT !.i = run.i + 1, !.pc = "cooldown",
                                   !.trace = Append(run.trace, Event("wait", 0, CooldownMs))]]
         /\ logs' = logs1
         /\ genProgress' = IF run.mounted
                             THEN [genProgress EXCEPT !.current = run.i + 1]
                             ELSE genProgress
         /\ statusMessage' = IF run.mounted THEN "Cooling down" ELSE statusMessage
         /\ UNCHANGED isAutoGenerating
    ELSE /\ runs' = [runs EXCEPT ![r] =
                       [run EXCEPT !.i = run.i + 1, !.pc = "done", !.retries = 0,
                                   !.ref = NullResult, !.mounted = FALSE]]
         /\ logs' = AddLog(logs1, LogEntry("system", "Generation Queue Complete", 0))
         /\ genProgress' = IF run.mounted
                             THEN [genProgress EXCEPT !.current = run.i + 1]
                             ELSE genProgress
         /\ statusMessage' = IF run.mounted THEN "" ELSE statusMessage
         /\ isAutoGenerating' = IF run.mounted THEN FALSE ELSE isAutoGenerating

\* `const details = await analyzeSpecificItem(...)` resumed with details: patch
\* through the ref, then finish the item
DetailAttaches(r, details) ==
  /\ EffectsIdle
  /\ r \in DOMAIN runs
  /\ runs[r].pc = "request"
  /\ LET run == runs[r]
         ref == IF run.mounted THEN currentResultRef ELSE run.ref
         newResult == AttachDetails(ref, ItemOf(run).id, details)
         genAfter == IF run.mounted /\ LastItem(run) THEN FALSE ELSE isAutoGenerating
     IN /\ IF ref # NullResult
             THEN /\ currentResult' = newResult
                  /\ history' = AddToHistory(history, newResult)
                  /\ pendingEffect' = EffectAfter(currentPage, isAutoGenerating, genAfter)
             ELSE UNCHANGED <<currentResult, history, pendingEffect>>
        /\ FinishItem(r, [run EXCEPT !.trace = Append(run.trace, Event("ok", ItemOf(run).id, 0))],
                      logs)
  /\ UNCHANGED <<currentPage, restoredItem, homeVars, currentResultRef, searches,
                 clicks, counters, batching, libVars>>

\* analyzeSpecificItem returned the details its requester asked for
DetailSucceeds(r) == DetailAttaches(r, Details(r))

\* analyzeSpecificItem threw an error classified as rate limit
DetailRateLimited(r, cap) ==
  /\ EffectsIdle
  /\ r \in DOMAIN runs
  /\ runs[r].pc = "request"
  /\ nFailures < cap
  /\ LET run == runs[r]
         retries == run.retries + 1
         waitTime == WaitTime(retries)
     IN /\ runs' = [runs EXCEPT ![r] =
                      [run EXCEPT !.retries = retries, !.pc = "backoff",
                                  !.trace = run.trace \o <<Event("rate", ItemOf(run).id, 0),
                                                           Event("wait", ItemOf(run).id, waitTime)>>]]
        /\ statusMessage' = IF run.mounted THEN "Rate Limit" ELSE statusMessage
        /\ logs' = AddLog(logs, LogEntry("warning", "Quota Exceeded", ItemOf(run).id))
  /\ UNCHANGED <<currentPage, currentResult, history, restoredItem, homeVars,
                 isAutoGenerating, genProgress, currentResultRef, pendingEffect,
                 searches, clicks, counters, batching, libVars>>

\* DetailFails that treats every error as a rate limit: back off, then retry
DetailFailsRetries(r, cap) ==
  /\ EffectsIdle
  /\ r \in DOMAIN runs
  /\ runs[r].pc = "request"
  /\ nFailures < cap
  /\ LET run == runs[r]
         retries == run.retries + 1
     IN /\ runs' = [runs EXCEPT ![r] =
                      [run EXCEPT !.retries = retries, !.pc = "backoff",
                                  !.trace = run.trace \o <<Event("err", ItemOf(run).id, 0),
                                                           Event("wait", ItemOf(run).id,
                                                                 WaitTime(retries))>>]]
        /\ statusMessage' = IF run.mounted THEN "Rate Limit" ELSE statusMessage
        /\ logs' = AddLog(logs, LogEntry("error", "Failed to generate", ItemOf(run).id))
  /\ UNCHANGED <<currentPage, currentResult, history, restoredItem, homeVars,
                 isAutoGenerating, genProgress, currentResultRef, pendingEffect,
                 searches, clicks, counters, batching, libVars>>

\* analyzeSpecificItem threw any other error: log, break
DetailFails(r, cap) ==
  /\ EffectsIdle
  /\ r \in DOMAIN runs
  /\ runs[r].pc = "request"
  /\ nFailures < cap
  /\ LET run == runs[r] IN
       FinishItem(r, [run EXCEPT !.trace = Append(run.trace, Event("err", ItemOf(run).id, 0))],
                  AddLog(logs, LogEntry("error", "Failed to generate", ItemOf(run).id)))
  /\ UNCHANGED <<currentPage, currentResult, history, restoredItem, homeVars,
                 currentResultRef, pendingEffect, searches, clicks, counters, batching, libVars>>

\* generateContent answered the run's request with text: analyzeSpecificItem
\* returns or throws, and the run goes on in its try or its catch
DetailReturns(r, text, cap) ==
  IF ParseDetail(text) = Thrown
    THEN DetailFails(r, cap)
    ELSE DetailAttaches(r, ParseDetail(text))

\* ------------------------------------------------- classification of errors
\* a message is the sequence of its characters; <<>> is a missing message
\* message.includes(pattern)
Includes(message, pattern) ==
  \E k \in 0..(Len(message) - Len(pattern)) :
    SubSeq(message, k + 1, k + Len(pattern)) = pattern

\* new Error("API_KEY not found")
MissingCredential == [status |-> 0, message |-> <<"A", "P", "I", "_", "K", "E", "Y", " ", "n", "o", "t", " ", "f", "o", "u", "n", "d">>]
\* new Error("Empty detail response")
EmptyResponse == [status |-> 0, message |-> <<"E", "m", "p", "t", "y", " ", "d", "e", "t", "a", "i", "l", " ", "r", "e", "s", "p", "o", "n", "s", "e">>]
\* the SyntaxError of JSON.parse; the text of its message is the engine's, and
\* one that held "429" or "quota" would be classified by IsRateLimit as such
Unparsable == [status |-> 0, message |-> <<"U", "n", "e", "x", "p", "e", "c", "t", "e", "d", " ", "t", "o", "k", "e", "n">>]

\* what analyzeSpecificItem may throw: its own errors and the rejections of
\* the remote call, with and without a status and a message
Errors ==
  {MissingCredential, EmptyResponse, Unparsable,
   [status |-> 429, message |-> <<>>],
   [status |-> 429, message |-> <<"T", "o", "o", " ", "M", "a", "n", "y", " ", "R", "e", "q", "u", "e", "s", "t", "s">>],
   [status |-> 0, message |-> <<"g", "o", "t", " ", "s", "t", "a", "t", "u", "s", " ", "4", "2", "9">>],
   [status |-> 0, message |-> <<"c", "o", "d", "e", " ", "1", "4", "2", "9", "0">>],
   [status |-> 0, message |-> <<"q", "u", "o", "t", "a", " ", "e", "x", "c", "e", "e", "d", "e", "d">>],
   [status |-> 0, message |-> <<"Q", "u", "o", "t", "a", " ", "e", "x", "c", "e", "e", "d", "e", "d">>],
   [status |-> 500, message |-> <<"I", "n", "t", "e", "r", "n", "a", "l", " ", "e", "r", "r", "o", "r">>],
   [status |-> 0, message |-> <<>>]}

\* isRateLimit with the status test only
IsRateLimitStatusOnly(e) == e.status = 429

\* e.message?.includes('429') || e.message?.includes('quota') || e.status === 429
IsRateLimit(e) ==
  \/ Includes(e.message, <<"4", "2", "9">>)
  \/ Includes(e.message, <<"q", "u", "o", "t", "a">>)
  \/ e.status = 429

\* analyzeSpecificItem threw e: the catch classifies it
DetailThrows(r, e, cap) ==
  IF IsRateLimit(e) THEN DetailRateLimited(r, cap) ELSE DetailFails(r, cap)

\* BackoffElapsed that gives the item up after the first backoff wait
BackoffElapsedMovesOn(r) ==
  /\ EffectsIdle
  /\ r \in DOMAIN runs
  /\ runs[r].pc = "backoff"
  /\ FinishItem(r, runs[r], logs)
  /\ UNCHANGED <<currentPage, currentResult, history, restoredItem, homeVars,
                 currentResultRef, pendingEffect, searches, clicks, nextUid, batching, libVars>>

\* delay(waitTime) resolved: the while condition is tested again
BackoffElapsed(r) ==
  /\ EffectsIdle
  /\ r \in DOMAIN runs
  /\ runs[r].pc = "backoff"
  /\ LET run == runs[r] IN
       IF run.retries < maxRetries
         THEN /\ runs' = [runs EXCEPT ![r] =
                            [run EXCEPT !.pc = "request",
                                        !.trace = Append(run.trace, Event("req", ItemOf(run).id, 0))]]
              /\ UNCHANGED <<logs, isAutoGenerating, genProgress, statusMessage>>
         ELSE FinishItem(r, run, logs)
  /\ UNCHANGED <<currentPage, currentResult, history, restoredItem, homeVars,
                 currentResultRef, pendingEffect, searches, clicks, nextUid, batching, libVars>>

\* delay(4000) resolved: the next item's first request
CooldownElapsed(r) ==
  /\ EffectsIdle
  /\ r \in DOMAIN runs
  /\ runs[r].pc = "cooldown"
  /\ LET run == runs[r] IN
       runs' = [runs EXCEPT ![r] =
                  [run EXCEPT !.retries = 0, !.pc = "request",
                              !.trace = Append(run.trace, Event("req", ItemOf(run).id, 0))]]
  /\ statusMessage' = IF runs[r].mounted THEN "Analyzing" ELSE statusMessage
  /\ UNCHANGED <<currentPage, currentResult, history, logs, restoredItem, homeVars,
                 isAutoGenerating, genProgress, currentResultRef, pendingEffect,
                 searches, clicks, nextUid, batching, libVars>>

\* -------------------------------------------- ReportPage.handleDownloadPdf
canvasWidth == A4_WIDTH_PX * CanvasScale
contentWidth == PdfWidth - (margin * 2)
contentHeight == PdfHeight - (margin * 2)

\* scaleFactor = contentWidth / canvas.width and pageHeightInCanvasPx =
\* contentHeight / scaleFactor are fractions: lengths along the canvas are
\* counted in units of 1/Den pixel row, so that
\* pageHeightInCanvasPx = PageHeightUnits / Den
Den == contentWidth
PageHeightUnits == contentHeight * canvasWidth

Min(a, b) == IF a < b THEN a ELSE b

\* the while loop: one slice per page, from currentSourceY (in units) on.
\* sliceCanvas.height = sliceHeightPx keeps the whole rows of sliceHeightPx,
\* and drawImage copies the source from currentSourceY on at scale 1 into it.
RECURSIVE SliceLoop(_, _, _)
SliceLoop(currentSourceY, height, pages) ==
  IF currentSourceY < height * Den
    THEN LET sliceHeightPx == Min(PageHeightUnits, (height * Den) - currentSourceY)
         IN SliceLoop(currentSourceY + PageHeightUnits, height,
                      Append(pages, [sourceY |-> currentSourceY,
                                     sliceHeight |-> sliceHeightPx,
                                     rows |-> sliceHeightPx \div Den]))
    ELSE pages

\* handleDownloadPdf up to `await new Promise(resolve => setTimeout(resolve, 200))`:
\* the flag is set, the clone is put into a container appended to document.body
HandleDownloadPdf ==
  /\ EffectsIdle
  /\ currentPage = "report"
  /\ currentResult # NullResult            \* if (!reportRef.current) return
  /\ ~isExportingPdf                       \* disabled={isExportingPdf}
  /\ pdf.pc = "idle"
  /\ pdf.n < MaxExports
  /\ isExportingPdf' = TRUE
  /\ containers' = containers + 1
  /\ pdf' = [pc |-> "delay", height |-> 0, pages |-> <<>>, saved |-> FALSE, n |-> pdf.n + 1]
  /\ UNCHANGED <<appVars, homeVars, reportVars, asyncVars, counters, batching, serviceVars, printVars>>

\* the 200 ms timer fired: html2canvas(clone, ...) is called
ExportDelayElapsed ==
  /\ pdf.pc = "delay"
  /\ pdf' = [pdf EXCEPT !.pc = "render"]
  /\ UNCHANGED <<appVars, homeVars, reportVars, asyncVars, counters, batching,
                 serviceVars, isExportingPdf, containers,
                 printVars>>

\* html2canvas resolved with a canvas of the given height: the container is
\* removed, the canvas is sliced into pages, the file is saved; finally
RenderSucceeds(height) ==
  /\ pdf.pc = "render"
  /\ containers' = containers - 1
  /\ pdf' = [pdf EXCEPT !.pc = "idle", !.height = height,
                        !.pages = SliceLoop(0, height, <<>>), !.saved = TRUE]
  /\ isExportingPdf' = FALSE
  /\ UNCHANGED <<appVars, homeVars, reportVars, asyncVars, counters, batching, serviceVars, printVars>>

\* html2canvas rejected: catch (alert), finally
RenderFails ==
  /\ pdf.pc = "render"
  /\ pdf' = [pdf EXCEPT !.pc = "idle"]
  /\ isExportingPdf' = FALSE
  /\ UNCHANGED <<appVars, homeVars, reportVars, asyncVars, counters, batching,
                 serviceVars, containers, printVars>>

\* html2canvas resolved and jsPDF threw: the container is removed; catch, finally
PdfFails ==
  /\ pdf.pc = "render"
  /\ containers' = containers - 1
  /\ pdf' = [pdf EXCEPT !.pc = "idle"]
  /\ isExportingPdf' = FALSE
  /\ UNCHANGED <<appVars, homeVars, reportVars, asyncVars, counters, batching, serviceVars, printVars>>

\* ------------------------------------------ PrintControls.handleDownloadPdf
\* imgHeight = canvas.height * pdfWidth / canvas.width is a fraction: lengths
\* along the page are counted in units of 1/canvas.width mm, in which
\* imgHeight is height * PdfWidth and the page height is PdfHeight * width
PrintImgHeight(width, height) == height * PdfWidth
PrintPageHeight(width) == PdfHeight * width

\* the while loop of the export: one more page, at position
\* heightLeft - imgHeight, as long as heightLeft >= 0
RECURSIVE PrintLoop(_, _, _, _)
PrintLoop(heightLeft, imgHeight, pageHeight, positions) ==
  IF heightLeft >= 0
    THEN PrintLoop(heightLeft - pageHeight, imgHeight, pageHeight,
                   Append(positions, heightLeft - imgHeight))
    ELSE positions

\* the positions of the image on the pages of the document: the first page
\* at position 0, then the pages of the loop
PrintPages(width, height) ==
  PrintLoop(PrintImgHeight(width, height) - PrintPageHeight(width),
            PrintImgHeight(width, height), PrintPageHeight(width), <<0>>)

\* handleDownloadPdf up to `await html2canvas(contentRef.current, ...)`
PrintDownloadPdf ==
  /\ currentPage = "history"
  /\ ~isGeneratingPdf                      \* disabled={isGeneratingPdf}
  /\ printPdf.pc # "render"
  /\ printPdf.n < MaxExports
  /\ isGeneratingPdf' = TRUE
  /\ printPdf' = [NoPrint EXCEPT !.pc = "render", !.n = printPdf.n + 1]
  /\ UNCHANGED <<appVars, homeVars, reportVars, asyncVars, counters, batching,
                 serviceVars, exportVars>>

\* html2canvas resolved with a canvas of the given size: the image is put on
\* the pages, the file is saved; finally
PrintRenderSucceeds(width, height) ==
  /\ printPdf.pc = "render"
  /\ printPdf' = [printPdf EXCEPT !.pc = "idle", !.width = width, !.height = height,
                                  !.pages = PrintPages(width, height), !.saved = TRUE]
  /\ isGeneratingPdf' = FALSE
  /\ UNCHANGED <<appVars, homeVars, reportVars, asyncVars, counters, batching,
                 serviceVars, exportVars>>

\* html2canvas rejected: catch (alert), finally
PrintRenderFails ==
  /\ printPdf.pc = "render"
  /\ printPdf' = [printPdf EXCEPT !.pc = "idle"]
  /\ isGeneratingPdf' = FALSE
  /\ UNCHANGED <<appVars, homeVars, reportVars, asyncVars, counters, batching,
                 serviceVars, exportVars>>

\* ------------------------------------------------------- specifications
\* some step of some drain run
Drain(cap) ==
  \E r \in DOMAIN runs :
    \/ DetailSucceeds(r)
    \/ DetailRateLimited(r, cap)
    \/ DetailFails(r, cap)
    \/ BackoffElapsed(r)
    \/ CooldownElapsed(r)

Next ==
  \/ \E q \in QueryTexts : TypeQuery(q)
  \/ \E m \in BOOLEAN : HandleSearch(m)
  \/ \E k \in DOMAIN searches, n \in 1..MaxNewItems : SearchSucceeds(k, n)
  \/ \E k \in DOMAIN searches : SearchFails(k)
  \/ \E j \in DOMAIN currentResult.suggestions : HandleItemClick(j)
  \/ \E k \in DOMAIN clicks : ItemClickSucceeds(k)
  \/ \E k \in DOMAIN clicks : ItemClickFails(k)
  \/ \E p \in Pages : Navigate(p)
  \/ \E k \in DOMAIN history : HandleRestore(k)
  \/ HomeRestoreEffect
  \/ ReportEffect
  \/ \E r \in DOMAIN runs : DetailSucceeds(r)
  \/ \E r \in DOMAIN runs : DetailRateLimited(r, MaxFailures)
  \/ \E r \in DOMAIN runs : DetailFails(r, MaxFailures)
  \/ \E r \in DOMAIN runs : BackoffElapsed(r)
  \/ \E r \in DOMAIN runs : CooldownElapsed(r)

Spec == Init /\ [][Next]_vars

\* The single-view scenario: a new search returned n items, the user opened
\* the report screen and stays on it; the remote service answers every detail
\* request with a result, a rate-limit error or another error.
InitDrain ==
  \E n \in 1..MaxBatch :
    LET doc == NewResult(n + 1, "q", NewSuggestions(1, n), 1) IN
    /\ currentPage = "report"
    /\ currentResult = doc
    /\ history = <<doc>>
    /\ logs = <<LogEntry("system", "App initialized", 0),
                LogEntry("info", "New search", 0),
                LogEntry("system", "Gemini API Success", n)>>
    /\ restoredItem = NullResult
    /\ query = ""
    /\ isLoading = FALSE
    /\ error = ""
    /\ loadingItemId = 0
    /\ attachment = NoAttachment
    /\ reads = <<>>
    /\ isAutoGenerating = FALSE
    /\ genProgress = [current |-> 0, total |-> 0]
    /\ statusMessage = ""
    /\ currentResultRef = doc
    /\ pendingEffect = "idle"
    /\ searches = <<>>
    /\ clicks = <<>>
    /\ runs = <<>>
    /\ nextUid = n + 2
    /\ batching \in BOOLEAN
    /\ LibInit

\* no cap on the errors of the remote service: a batch of MaxBatch items
\* receives fewer than this many
DrainFailures == (MaxBatch + 1) * (MaxBatch + 1) * maxRetries

NextDrain ==
  \/ ReportEffect
  \/ \E r \in DOMAIN runs : DetailSucceeds(r)
  \/ \E r \in DOMAIN runs : DetailRateLimited(r, DrainFailures)
  \/ \E r \in DOMAIN runs : DetailFails(r, DrainFailures)
  \/ \E r \in DOMAIN runs : BackoffElapsed(r)
  \/ \E r \in DOMAIN runs : CooldownElapsed(r)

SpecDrain == InitDrain /\ [][NextDrain]_vars

\* every response arrives, every timer fires, every effect runs
LiveDrain ==
  SpecDrain /\ WF_vars(ReportEffect) /\ WF_vars(Drain(DrainFailures))


\* the whole program, where every response arrives, every timer fires and
\* every effect runs
FairSpec ==
  Spec /\ WF_vars(ReportEffect) /\ WF_vars(HomeRestoreEffect)
       /\ WF_vars(Drain(MaxFailures))

\* The home scenario: the user works on the home and history screens, stages
\* and removes attachments, and never opens the report screen.
NextHome ==
  \/ \E q \in QueryTexts : TypeQuery(q)
  \/ \E m \in BOOLEAN : HandleSearch(m)
  \/ \E k \in DOMAIN searches, n \in 1..MaxNewItems : SearchSucceeds(k, n)
  \/ \E k \in DOMAIN searches : SearchFails(k)
  \/ \E j \in DOMAIN currentResult.suggestions : HandleItemClick(j)
  \/ \E k \in DOMAIN clicks : ItemClickSucceeds(k)
  \/ \E k \in DOMAIN clicks : ItemClickFails(k)
  \/ \E size \in FileSizes : HandleFileSelect(size)
  \/ \E k \in DOMAIN reads : FileLoaded(k)
  \/ \E k \in DOMAIN reads : FileReadFails(k)
  \/ HandleLinkSubmit
  \/ RemoveAttachment
  \/ \E p \in Pages \ {"report"} : Navigate(p)
  \/ \E k \in DOMAIN history : HandleRestore(k)
  \/ HomeRestoreEffect

\* batching shows only in the report view, which this scenario never mounts
InitHome == Init /\ batching

SpecHome == InitHome /\ [][NextHome]_vars

\* The blank-query scenario: the home screen, where the query may also be
\* white space only.
NextBlank ==
  \/ \E q \in BlankTexts : TypeQuery(q)
  \/ \E isLoadMore \in BOOLEAN : HandleSearch(isLoadMore)
  \/ \E k \in DOMAIN searches, n \in 1..MaxNewItems : SearchSucceeds(k, n)
  \/ \E k \in DOMAIN searches : SearchFails(k)
  \/ HandleLinkSubmit
  \/ RemoveAttachment

SpecBlank == InitHome /\ [][NextBlank]_vars

\* The response scenario: the single view of the drain scenario, where the
\* remote service answers every detail request with a response text.
NextParse ==
  \/ ReportEffect
  \/ \E r \in DOMAIN runs, text \in ResponseTexts : DetailReturns(r, text, MaxFailures)
  \/ \E r \in DOMAIN runs : CooldownElapsed(r)

SpecParse == InitDrain /\ [][NextParse]_vars

\* The service scenario: the service functions are called, with or without
\* the credential, and the remote service rejects or answers each request.
InitService ==
  /\ AppInit
  /\ batching
  /\ apiKey \in BOOLEAN
  /\ serviceCalls = <<>>
  /\ ExportInit
  /\ PrintInit

NextService ==
  \/ \E fn \in Fns : ServiceCall(fn)
  \/ \E c \in DOMAIN serviceCalls : ServiceRejects(c)
  \/ \E c \in DOMAIN serviceCalls, text \in ResponseTexts : ServiceResolves(c, text)

SpecService == InitService /\ [][NextService]_vars

\* The export scenario: the report screen shows a document whose items all
\* have details, and the user exports it as PDF.
InitExport ==
  \E n \in 1..MaxBatch :
    LET doc == NewResult(n + 1, "q",
                         [j \in 1..n |-> [id |-> j, details |-> Details(1)]], 1) IN
    /\ currentPage = "report"
    /\ currentResult = doc
    /\ history = <<doc>>
    /\ logs = <<LogEntry("system", "App initialized", 0),
                LogEntry("info", "New search", 0),
                LogEntry("system", "Gemini API Success", n)>>
    /\ restoredItem = NullResult
    /\ query = ""
    /\ isLoading = FALSE
    /\ error = ""
    /\ loadingItemId = 0
    /\ attachment = NoAttachment
    /\ reads = <<>>
    /\ isAutoGenerating = FALSE
    /\ genProgress = [current |-> 0, total |-> 0]
    /\ statusMessage = ""
    /\ currentResultRef = doc
    /\ pendingEffect = "none"
    /\ searches = <<>>
    /\ clicks = <<>>
    /\ runs = <<>>
    /\ nextUid = n + 2
    /\ batching = TRUE
    /\ LibInit

NextExport ==
  \/ HandleDownloadPdf
  \/ ExportDelayElapsed
  \/ \E height \in 1..MaxCanvasHeight : RenderSucceeds(height)
  \/ RenderFails
  \/ PdfFails

SpecExport == InitExport /\ [][NextExport]_vars

\* The print scenario: the history screen lists one document; the user
\* exports the list with PrintControls, html2canvas renders a canvas of some
\* size or fails.
InitPrint ==
  LET doc == NewResult(2, "q", [j \in 1..1 |-> [id |-> j, details |-> NoDetails]], 1) IN
  /\ currentPage = "history"
  /\ currentResult = doc
  /\ history = <<doc>>
  /\ logs = <<LogEntry("system", "App initialized", 0),
              LogEntry("info", "New search", 0),
              LogEntry("system", "Gemini API Success", 1)>>
  /\ restoredItem = NullResult
  /\ query = ""
  /\ isLoading = FALSE
  /\ error = ""
  /\ loadingItemId = 0
  /\ attachment = NoAttachment
  /\ reads = <<>>
  /\ isAutoGenerating = FALSE
  /\ genProgress = [current |-> 0, total |-> 0]
  /\ statusMessage = ""
  /\ currentResultRef = NullResult
  /\ pendingEffect = "none"
  /\ searches = <<>>
  /\ clicks = <<>>
  /\ runs = <<>>
  /\ nextUid = 3
  /\ batching = TRUE
  /\ LibInit

NextPrint ==
  \/ PrintDownloadPdf
  \/ \E width \in MinPrintWidth..MaxPrintWidth, height \in 1..MaxPrintHeight :
       PrintRenderSucceeds(width, height)
  \/ PrintRenderFails

SpecPrint == InitPrint /\ [][NextPrint]_vars

\* The error scenario: the single view of the drain scenario, where the
\* remote service answers a detail request with a result or with an error.
NextErrors ==
  \/ ReportEffect
  \/ \E r \in DOMAIN runs : DetailSucceeds(r)
  \/ \E r \in DOMAIN runs, e \in Errors : DetailThrows(r, e, DrainFailures)
  \/ \E r \in DOMAIN runs : BackoffElapsed(r)
  \/ \E r \in DOMAIN runs : CooldownElapsed(r)

SpecErrors == InitDrain /\ [][NextErrors]_vars

\* ------------------------------------------------- reading a run's trace

\* the item identities of a batch, in batch order
Ids(items) == [j \in DOMAIN items |-> items[j].id]

\* the events of kind e about item x in a trace
EventsOf(trace, e, x) == SelectSeq(trace, LAMBDA t : t.ev = e /\ t.item = x)

\* how many requests the run has issued for item x
ReqCount(run, x) == Len(EventsOf(run.trace, "req", x))

\* the waits, in ms, the run has made on behalf of item x (its backoff waits)
BackoffWaits(run, x) ==
  LET w == EventsOf(run.trace, "wait", x) IN [j \in DOMAIN w |-> w[j].ms]

\* the run has given up item x: a non-rate-limit error, or maxRetries rate limits
AbandonedBy(run, x) ==
  \/ EventsOf(run.trace, "err", x) # <<>>
  \/ Len(EventsOf(run.trace, "rate", x)) >= maxRetries

\* the run has received no error at all
Clean(run) == \A k \in DOMAIN run.trace : run.trace[k].ev \notin {"rate", "err"}

ActiveRuns == {r \in DOMAIN runs : runs[r].pc # "done"}

ItemIds(doc) == {doc.suggestions[j].id : j \in DOMAIN doc.suggestions}

\* the details of item x in doc (NoDetails when doc has no such item)
DetailsOf(doc, x) ==
  IF x \in ItemIds(doc)
    THEN LET j == CHOOSE j \in DOMAIN doc.suggestions : doc.suggestions[j].id = x
         IN doc.suggestions[j].details
    ELSE NoDetails

\* ------------------------------------------------------------------ claims

\* C1: at most one drain run is active for a result document at any time; no
\* item is in the batch of two runs that are active together.
C1_OneRunPerDocument ==
  \A r1 \in ActiveRuns : \A r2 \in ActiveRuns :
    r1 # r2 =>
      {runs[r1].items[j].id : j \in DOMAIN runs[r1].items}
        \cap {runs[r2].items[j].id : j \in DOMAIN runs[r2].items} = {}

\* C2: at most one detail request is outstanding, counting the drain runs'
\* requests and the on-demand requests.
C2_OneOutstandingRequest == Outstanding <= 1

\* C3: the details of an item, once present in the current document or in a
\* history entry, stay what they are in every later version of that document.
C3_DetailsKept ==
  [][/\ \A x \in ItemIds(currentResult) :
          (currentResult'.id = currentResult.id
             /\ DetailsOf(currentResult, x) # NoDetails)
          => DetailsOf(currentResult', x) = DetailsOf(currentResult, x)
     /\ \A k \in DOMAIN history : \A x \in ItemIds(history[k]) :
          DetailsOf(history[k], x) # NoDetails
          => /\ k \in DOMAIN history'
             /\ history'[k].id = history[k].id
             /\ DetailsOf(history'[k], x) = DetailsOf(history[k], x)]_vars

\* C4: a detail response that arrives when the current document has another
\* identity than the document it was requested for changes neither the
\* current document nor the history.
C4_LateResponseNoOp ==
  [][/\ \A k \in DOMAIN clicks :
          (ItemClickSucceeds(k) /\ clicks[k].currentResult.id # currentResult.id)
          => (currentResult' = currentResult /\ history' = history)
     /\ \A r \in DOMAIN runs :
          (DetailSucceeds(r) /\ ~runs[r].mounted /\ runs[r].ref.id # currentResult.id)
          => (currentResult' = currentResult /\ history' = history)]_vars


\* the trace of a run over the items ids in which every request succeeds at once
RECURSIVE CleanTrace(_)
CleanTrace(ids) ==
  IF ids = <<>> THEN <<>>
  ELSE LET n == Len(ids)
           last == <<Event("req", ids[n], 0), Event("ok", ids[n], 0)>>
       IN IF n = 1 THEN last
          ELSE CleanTrace(SubSeq(ids, 1, n - 1)) \o <<Event("wait", 0, 4000)>> \o last

\* C5: a run over N items whose requests all succeed issues exactly N requests,
\* one per item in batch order, none preceded by a wait except that 4000 ms pass
\* between two consecutive requests, and ends with completed = total = N.
C5_CleanRun ==
  \A r \in DOMAIN runs :
    (runs[r].pc = "done" /\ Clean(runs[r]))
    => /\ runs[r].trace = CleanTrace(Ids(runs[r].items))
       /\ r = Len(runs) =>
            genProgress = [current |-> Len(runs[r].items), total |-> Len(runs[r].items)]

C5_Witness ==
  \E r \in DOMAIN runs :
    runs[r].pc = "done" /\ Clean(runs[r]) /\ Len(runs[r].items) = 3

\* the responses the run has received for item x, in order
Responses(run, x) ==
  LET t == SelectSeq(run.trace, LAMBDA e : e.item = x /\ e.ev \in {"ok", "rate", "err"})
  IN [j \in DOMAIN t |-> t[j].ev]

\* C6: when the 2nd item of a 3-item batch is rate limited twice and then
\* succeeds, it is requested three times with waits of 12000 ms and 14000 ms
\* before the retries, and items 1 and 3 are requested once each.
C6_TwoRetries ==
  \A r \in DOMAIN runs :
    LET run == runs[r]
        ids == Ids(run.items)
    IN (/\ run.pc = "done"
        /\ Len(ids) = 3
        /\ Responses(run, ids[1]) = <<"ok">>
        /\ Responses(run, ids[2]) = <<"rate", "rate", "ok">>
        /\ Responses(run, ids[3]) = <<"ok">>)
       => /\ ReqCount(run, ids[2]) = 3
          /\ BackoffWaits(run, ids[2]) = <<12000, 14000>>
          /\ ReqCount(run, ids[1]) = 1
          /\ ReqCount(run, ids[3]) = 1

\* C7: an item whose every request is rate limited is requested 4 times (the
\* initial attempt and 3 retries, after waits of 12 s, 14 s and 16 s) before the
\* run abandons it and goes on.
C7_RetriesExhausted ==
  \A r \in DOMAIN runs :
    \A j \in DOMAIN runs[r].items :
      LET run == runs[r]
          x == run.items[j].id
      IN (/\ j < run.i + 1          \* the run has left item x
          /\ Responses(run, x) # <<>>
          /\ \A k \in DOMAIN Responses(run, x) : Responses(run, x)[k] = "rate")
         => /\ ReqCount(run, x) = 4
            /\ BackoffWaits(run, x) = <<12000, 14000, 16000>>

\* C8: a non-rate-limit error ends the work on its item at once: nothing more
\* is requested or awaited for the item, the run goes on to the cooldown of the
\* next item (or ends), an item that fails on its first request is requested
\* once, and when a run with a single such failure and no other error ends, the
\* failed item is the only item of the document without details.
C8_ErrorAbandons ==
  \A r \in DOMAIN runs :
    LET run == runs[r]
        t == run.trace
    IN /\ \A k \in DOMAIN t :
            t[k].ev = "err"
            => /\ \A m \in DOMAIN t : m > k => t[m].item # t[k].item
               /\ IF k < Len(t) THEN t[k + 1] = Event("wait", 0, 4000)
                                ELSE run.pc = "done"
               /\ Responses(run, t[k].item) = <<"err">>
                    => ReqCount(run, t[k].item) = 1 /\ BackoffWaits(run, t[k].item) = <<>>
       /\ \A x \in ItemIds(currentResult) :
            (/\ run.pc = "done"
             /\ r = Len(runs)
             /\ Responses(run, x) = <<"err">>
             /\ \A k \in DOMAIN t : t[k].ev \in {"rate", "err"} => t[k].item = x)
            => /\ \A j \in DOMAIN run.items : ReqCount(run, run.items[j].id) = 1
               /\ \A y \in ItemIds(currentResult) :
                    (DetailsOf(currentResult, y) = NoDetails) <=> (y = x)

C8_Witness ==
  \E r \in DOMAIN runs :
    /\ runs[r].pc = "done"
    /\ r = Len(runs)
    /\ Len(runs[r].items) = 3
    /\ Responses(runs[r], runs[r].items[1].id) = <<"ok">>
    /\ Responses(runs[r], runs[r].items[2].id) = <<"err">>
    /\ Responses(runs[r], runs[r].items[3].id) = <<"ok">>
    /\ DetailsOf(currentResult, runs[r].items[2].id) = NoDetails

\* every item of the batch has succeeded or been abandoned
Settled(run) ==
  \A j \in DOMAIN run.items :
    \/ EventsOf(run.trace, "ok", run.items[j].id) # <<>>
    \/ AbandonedBy(run, run.items[j].id)

\* C9: every started drain run ends; the step that ends it finds every item of
\* its batch succeeded or abandoned, writes the completion entry and, in the
\* view that started it, clears the generating flag and the status message.
C9_RunEnds ==
  /\ \A r \in 1..MaxBatch :
       (r \in DOMAIN runs /\ runs[r].pc # "done")
         ~> (r \in DOMAIN runs /\ runs[r].pc = "done")
  /\ [][\A r \in DOMAIN runs :
          (runs[r].pc # "done" /\ runs'[r].pc = "done")
          => /\ Settled(runs'[r])
             /\ logs' = Append(logs, LogEntry("system", "Generation Queue Complete", 0))
                \/ logs' = Append(Append(logs, LogEntry("error", "Failed to generate",
                                                         ItemOf(runs[r]).id)),
                                  LogEntry("system", "Generation Queue Complete", 0))
             /\ runs[r].mounted => (~isAutoGenerating' /\ statusMessage' = "")]_vars

C9_Witness ==
  \E r \in DOMAIN runs :
    /\ runs[r].pc = "done"
    /\ Len(runs[r].items) = 3
    /\ \E x \in ItemIds(currentResult) : Len(EventsOf(runs[r].trace, "rate", x)) = 3
    /\ \E x \in ItemIds(currentResult) : EventsOf(runs[r].trace, "err", x) # <<>>
    /\ \E x \in ItemIds(currentResult) : EventsOf(runs[r].trace, "ok", x) # <<>>
    /\ ~isAutoGenerating

\* C10 as stated: once a run has abandoned an item, no run ever issues a
\* request for it again (only the user's click does).
C10_NeverRequestedAgain ==
  [][\A r \in DOMAIN runs : \A j \in DOMAIN runs[r].items :
       AbandonedBy(runs[r], runs[r].items[j].id)
       => \A r2 \in DOMAIN runs' :
            ReqCount(runs'[r2], runs[r].items[j].id)
              = IF r2 \in DOMAIN runs THEN ReqCount(runs[r2], runs[r].items[j].id) ELSE 0]_vars

\* C10 amended: the run that abandoned an item never requests it again.
C10_SameRunNeverRequestsAgain ==
  [][\A r \in DOMAIN runs : \A j \in DOMAIN runs[r].items :
       AbandonedBy(runs[r], runs[r].items[j].id)
       => ReqCount(runs'[r], runs[r].items[j].id) = ReqCount(runs[r], runs[r].items[j].id)]_vars

C10_Witness ==
  \E r \in DOMAIN runs :
    /\ Len(runs[r].items) >= 2
    /\ AbandonedBy(runs[r], runs[r].items[1].id)
    /\ ReqCount(runs[r], runs[r].items[2].id) = 1

\* the detail requests issued so far for item x: on-demand fetches as the
\* activity log records them, drain requests as the runs' traces record them
IssuedFor(x) ==
  Cardinality({k \in DOMAIN logs : /\ logs[k].message = "Fetching details for item"
                                    /\ logs[k].subject = x})
  + Cardinality(UNION {{<<r, k>> : k \in {m \in DOMAIN runs[r].trace :
                                            /\ runs[r].trace[m].ev = "req"
                                            /\ runs[r].trace[m].item = x}} :
                       r \in DOMAIN runs})

\* the detail requests for item x still awaiting their response
PendingFor(x) ==
  Cardinality({k \in DOMAIN clicks : clicks[k].item = x})
  + Cardinality({r \in DOMAIN runs : runs[r].pc = "request" /\ ItemOf(runs[r]).id = x})

\* C11: a detail request is issued for an item only when the current document
\* holds no details for it and no other detail request for it is pending.
C11_NoRedundantRequest ==
  [][\A x \in 1..nextUid :
       IssuedFor(x)' > IssuedFor(x)
       => /\ DetailsOf(currentResult, x) = NoDetails
          /\ PendingFor(x) = 0]_vars

\* sequence a is a prefix of sequence b
IsPrefix(a, b) == Len(a) <= Len(b) /\ \A j \in DOMAIN a : a[j] = b[j]

\* C12: the item ids of a version of a document are a prefix of the item ids
\* of the next version of that document, as current document and in history.
C12_ItemsOnlyGrow ==
  [][/\ currentResult'.id = currentResult.id
          => IsPrefix(Ids(currentResult.suggestions), Ids(currentResult'.suggestions))
     /\ \A k \in DOMAIN history :
          /\ k \in DOMAIN history'
          /\ history'[k].id = history[k].id
          /\ IsPrefix(Ids(history[k].suggestions), Ids(history'[k].suggestions))]_vars

\* C13: a load-more response produces, from the document the load-more was
\* started on, a version with the same id, query and timestamp; its items are
\* that document's items, unchanged and in order, followed by the response's
\* items without details in response order; its sources are that document's
\* sources followed by the response's; commentary, prompt and model are the
\* response's.  The version becomes the current document and a history entry.
C13_LoadMoreAppends ==
  [][\A k \in DOMAIN searches : \A n \in 1..MaxNewItems :
       (SearchSucceeds(k, n) /\ searches[k].isLoadMore)
       => LET prior == searches[k].currentResult
              resp == searches[k].resp
              new == currentResult'
              len == Len(prior.suggestions)
          IN /\ new.id = prior.id
             /\ new.query = prior.query
             /\ new.timestamp = prior.timestamp
             /\ Len(new.suggestions) = len + n
             /\ \A j \in 1..len : new.suggestions[j] = prior.suggestions[j]
             /\ \A j \in 1..n :
                  new.suggestions[len + j] = [id |-> nextUid + j - 1, details |-> NoDetails]
             /\ new.sources = prior.sources \o <<resp>>
             /\ new.roastCommentary = resp
             /\ new.promptSuggestion = resp
             /\ new.bestModel = resp
             /\ \E h \in DOMAIN history' : history'[h] = new]_vars

\* a load-more was applied to a document whose first item already had details
C13_Witness ==
  /\ Len(currentResult.sources) = 2
  /\ Len(currentResult.suggestions) >= 2
  /\ currentResult.suggestions[1].details # NoDetails
  /\ currentResult.suggestions[2].details = NoDetails
  /\ \E a, b \in DOMAIN logs :
       /\ a < b
       /\ logs[a].message = "Fetching details for item"
       /\ logs[b].message = "Loading more"

\* the identities of the history entries, in order
HistIds(h) == [k \in DOMAIN h |-> h[k].id]

\* C14: the history never holds two entries of one identity; a step that
\* writes the history either replaces an entry in place, leaving the length and
\* the identities unchanged, or appends one entry of an identity not yet held.
C14_OneEntryPerIdentity ==
  /\ [](\A a, b \in DOMAIN history : history[a].id = history[b].id => a = b)
  /\ [][\/ HistIds(history') = HistIds(history)
        \/ /\ Len(history') = Len(history) + 1
           /\ SubSeq(history', 1, Len(history)) = history
           /\ \A k \in DOMAIN history : history[k].id # history'[Len(history')].id]_vars

\* two documents are held and one entry has been replaced by a version with details
C14_Witness ==
  /\ Len(history) = 2
  /\ \E k \in DOMAIN history : \E j \in DOMAIN history[k].suggestions :
       history[k].suggestions[j].details # NoDetails

\* C15: a selected file of more than 5 MiB (5242880 bytes) is rejected: no
\* attachment is staged from it, no read of it starts, an error is shown and
\* no request is issued; a file of 5 MiB or less is handed to the reader and is
\* the staged attachment once its read completes.  No staged or loading file
\* ever exceeds 5 MiB.
C15_FileCeiling ==
  /\ [](/\ attachment.type = "file" => attachment.size <= 5242880
        /\ \A k \in DOMAIN reads : reads[k] <= 5242880)
  /\ [][/\ \A size \in FileSizes :
             HandleFileSelect(size)
             => IF size > 5242880
                  THEN /\ attachment' = attachment
                       /\ reads' = reads
                       /\ error' # ""
                       /\ searches' = searches
                       /\ clicks' = clicks
                       /\ logs' = logs
                  ELSE reads' = Append(reads, size)
        /\ \A k \in DOMAIN reads :
             FileLoaded(k) => attachment' = [type |-> "file", size |-> reads[k]]]_vars

\* a file of exactly 5 MiB is staged and a larger file has then been rejected
C15_Witness ==
  /\ attachment = [type |-> "file", size |-> 5242880]
  /\ error = "file too large"
  /\ reads = <<>>

\* C16: a restore makes the chosen history entry the current document and
\* shows the home screen with no attachment staged; the restoration effect
\* then sets the query to the entry's query, keeps the entry as the current
\* document with no attachment, and clears the restore request, so that it is
\* applied once.
C16_Restore ==
  /\ [](restoredItem # NullResult
          => /\ currentResult = restoredItem
             /\ currentPage = "home"
             /\ attachment = NoAttachment)
  /\ [][/\ (restoredItem = NullResult /\ restoredItem' # NullResult)
             => /\ \E k \in DOMAIN history : history[k] = restoredItem'
                /\ currentResult' = restoredItem'
        /\ restoredItem # NullResult
             => /\ restoredItem' = NullResult
                /\ currentResult' = restoredItem
                /\ query' = restoredItem.query
                /\ attachment' = NoAttachment
                /\ history' = history]_vars

\* a restore of a document with details has been applied
C16_Witness ==
  /\ currentPage = "home"
  /\ restoredItem = NullResult
  /\ logs[Len(logs)].message = "Restored history item"
  /\ currentResult.id = logs[Len(logs)].subject
  /\ query = currentResult.query
  /\ query # ""
  /\ \E j \in DOMAIN currentResult.suggestions :
       currentResult.suggestions[j].details # NoDetails

\* C17: when a broad-analysis request fails, the error is shown to the user
\* and appended to the log as an error entry, no request is issued in its
\* place, and the current document and the history stay as they were.
C17_SearchFailure ==
  [][\A k \in DOMAIN searches :
       SearchFails(k)
       => /\ error' = "search"
          /\ logs' = Append(logs, LogEntry("error", "Analysis Failed", 0))
          /\ searches' = RemoveAt(searches, k)
          /\ clicks' = clicks
          /\ currentResult' = currentResult
          /\ history' = history]_vars

\* C18: an on-demand fetch issues one request; when it fails, the error is
\* shown to the user and appended to the log as an error entry, no request is
\* issued in its place, the current document and the history stay as they were
\* and the in-flight marker of its view is cleared; when it succeeds, the
\* details are attached to the matching item of the document it was started on
\* and that version is upserted into the history.
C18_SingleFetch ==
  [][/\ \A j \in DOMAIN currentResult.suggestions :
          HandleItemClick(j)
          => /\ Len(clicks') = Len(clicks) + 1
             /\ IssuedFor(currentResult.suggestions[j].id)'
                  = IssuedFor(currentResult.suggestions[j].id) + 1
     /\ \A k \in DOMAIN clicks :
          /\ ItemClickFails(k)
               => /\ error' = "detail"
                  /\ logs' = Append(logs, LogEntry("error", "Detail Fetch Failed",
                                                   clicks[k].item))
                  /\ clicks' = RemoveAt(clicks, k)
                  /\ currentResult' = currentResult
                  /\ history' = history
                  /\ clicks[k].mounted => loadingItemId' = 0
          /\ ItemClickSucceeds(k)
               => /\ currentResult'.id = clicks[k].currentResult.id
                  /\ Ids(currentResult'.suggestions) = Ids(clicks[k].currentResult.suggestions)
                  /\ \A x \in ItemIds(currentResult') :
                       DetailsOf(currentResult', x)
                         = IF x = clicks[k].item THEN clicks[k].req
                           ELSE DetailsOf(clicks[k].currentResult, x)
                  /\ \E h \in DOMAIN history' : history'[h] = currentResult'
                  /\ clicks' = RemoveAt(clicks, k)
                  /\ logs' = logs
                  /\ clicks[k].mounted => loadingItemId' = 0]_vars

\* the number of rate-limit errors the runs have received
RateEvents ==
  Cardinality(UNION {{<<r, k>> : k \in {m \in DOMAIN runs[r].trace :
                                          runs[r].trace[m].ev = "rate"}} :
                     r \in DOMAIN runs})

\* C19: every item a run has abandoned and left, after a non-rate-limit error
\* or after its rate-limit retries ran out, has an error entry in the log that
\* names it; the log holds one start entry per run, one entry per rate-limit
\* error, and one completion entry per ended run.
C19_FailuresLogged ==
  /\ \A r \in DOMAIN runs : \A j \in DOMAIN runs[r].items :
       (j <= runs[r].i /\ AbandonedBy(runs[r], runs[r].items[j].id))
       => \E k \in DOMAIN logs :
            logs[k].type = "error" /\ logs[k].subject = runs[r].items[j].id
  /\ CountLog(logs, "Auto-Generation Started") = Len(runs)
  /\ CountLog(logs, "Quota Exceeded") = RateEvents
  /\ CountLog(logs, "Generation Queue Complete")
       = Cardinality({r \in DOMAIN runs : runs[r].pc = "done"})

\* the position of item x in the batch of a run
PosOf(run, x) == CHOOSE j \in DOMAIN run.items : run.items[j].id = x

\* C20: in the trace of a run, a request is never followed by a request for
\* an earlier item of the batch, and when an item is requested every item
\* before it in the batch has succeeded or been abandoned.
C20_BatchOrder ==
  \A r \in DOMAIN runs :
    LET run == runs[r]
        t == run.trace
    IN \A m \in DOMAIN t :
         t[m].ev = "req"
         => /\ \A k \in 1..(m - 1) :
                 t[k].ev = "req" => PosOf(run, t[k].item) <= PosOf(run, t[m].item)
            /\ \A j \in 1..(PosOf(run, t[m].item) - 1) :
                 LET before == [trace |-> SubSeq(t, 1, m - 1)]
                 IN \/ EventsOf(before.trace, "ok", run.items[j].id) # <<>>
                    \/ AbandonedBy(before, run.items[j].id)

\* a run over three items has ended: the first failed with an error, the
\* second was retried after a rate limit, and the third was requested once
C20_Witness ==
  \E r \in DOMAIN runs :
    /\ runs[r].pc = "done"
    /\ Len(runs[r].items) = 3
    /\ Responses(runs[r], runs[r].items[1].id) = <<"err">>
    /\ Responses(runs[r], runs[r].items[2].id) = <<"rate", "ok">>
    /\ Responses(runs[r], runs[r].items[3].id) = <<"ok">>

\* C21: a successful drain step makes the current document the former current
\* document with the details attached to the item of the run's identity (every
\* other item, the order and every other field as they were) and stores that
\* version in the history; in every state a non-null current document is the
\* history entry of its identity.
C21_DrainPatch ==
  /\ [](currentResult # NullResult
          => \E k \in DOMAIN history :
               history[k].id = currentResult.id /\ history[k] = currentResult)
  /\ [][\A r \in DOMAIN runs :
          DetailSucceeds(r)
          => /\ currentResult' = AttachDetails(currentResult, ItemOf(runs[r]).id, Details(r))
             /\ \E k \in DOMAIN history' : history'[k] = currentResult']_vars

\* every identity in use: documents held or captured, and their items
DocsInUse ==
  {currentResult, restoredItem, currentResultRef}
    \cup {history[k] : k \in DOMAIN history}
    \cup {searches[k].currentResult : k \in DOMAIN searches}
    \cup {clicks[k].currentResult : k \in DOMAIN clicks}
    \cup {runs[r].ref : r \in DOMAIN runs}
IdsInUse ==
  {d.id : d \in DocsInUse \ {NullResult}}
    \cup UNION {ItemIds(d) : d \in DocsInUse}
    \cup UNION {{runs[r].items[j].id : j \in DOMAIN runs[r].items} : r \in DOMAIN runs}

\* C22: an enrichment patch and a load-more keep the identity of the document
\* they are applied to; the identities held by the history change only when a
\* new (non-load-more) search returns; the document a new search creates has
\* an identity not in use, and its items are the response's, in response
\* order, without details, with ids distinct from each other and from every
\* id in use.
C22_IdentityStable ==
  [][/\ \A k \in DOMAIN clicks :
          ItemClickSucceeds(k) => currentResult'.id = clicks[k].currentResult.id
     /\ \A r \in DOMAIN runs :
          DetailSucceeds(r)
          => currentResult'.id
               \in {currentResult.id, currentResultRef.id, runs[r].ref.id}
     /\ \A k \in DOMAIN searches : \A n \in 1..MaxNewItems :
          SearchSucceeds(k, n)
          => IF searches[k].isLoadMore
               THEN currentResult'.id = searches[k].currentResult.id
               ELSE /\ currentResult'.id \notin IdsInUse
                    /\ Len(currentResult'.suggestions) = n
                    /\ \A j \in 1..n :
                         /\ currentResult'.suggestions[j].details = NoDetails
                         /\ currentResult'.suggestions[j].id = nextUid + j - 1
                         /\ currentResult'.suggestions[j].id \notin IdsInUse
                         /\ currentResult'.suggestions[j].id # currentResult'.id
                    /\ \A i, j \in 1..n :
                         currentResult'.suggestions[i].id = currentResult'.suggestions[j].id
                         => i = j
     /\ {history'[k].id : k \in DOMAIN history'} # {history[k].id : k \in DOMAIN history}
          => \E k \in DOMAIN searches : \E n \in 1..MaxNewItems :
               SearchSucceeds(k, n) /\ ~searches[k].isLoadMore]_vars

\* two searches and a load-more: two identities are held and the current
\* document has two pages and two or more items
C22_Witness ==
  /\ Len(history) = 2
  /\ history[1].id # history[2].id
  /\ Len(currentResult.sources) = 2
  /\ Len(currentResult.suggestions) >= 3

\* every document held: the current one and the history entries
DocsHeld == {currentResult} \cup {history[k] : k \in DOMAIN history}

\* C23: in every state the details of every item of every document held are
\* absent or hold all three fields (analysis, steps, risks); a response text
\* that is not a JSON object holding the three fields is a failure of the
\* request: the step that receives it attaches nothing and logs an error.
C23_AllOrNothing ==
  /\ [](\A d \in DocsHeld : \A j \in DOMAIN d.suggestions :
          d.suggestions[j].details = NoDetails
          \/ FieldsOf(d.suggestions[j].details) = {"analysis", "steps", "risks"})
  /\ [][\A r \in DOMAIN runs : \A text \in ResponseTexts :
          (DetailReturns(r, text, MaxFailures)
             /\ ~(text.kind = "object" /\ text.fields = {"analysis", "steps", "risks"}))
          => /\ currentResult' = currentResult
             /\ history' = history
             /\ \E k \in DOMAIN logs' : k > Len(logs) /\ logs'[k].type = "error"]_vars

\* C24: a call of analyzeIssue or analyzeSpecificItem issues at most one
\* network request: the number of requests of a call never grows after the
\* call has started, and a call that has thrown or returned stays so; without
\* the credential every call throws with no request issued.
C24_OneRequestNoRetry ==
  /\ [](\A c \in DOMAIN serviceCalls :
          /\ serviceCalls[c].requests <= 1
          /\ ~apiKey => (serviceCalls[c].requests = 0 /\ serviceCalls[c].pc = "thrown"))
  /\ [][\A c \in DOMAIN serviceCalls :
          /\ serviceCalls'[c].requests = serviceCalls[c].requests
          /\ serviceCalls[c].pc # "awaiting" => serviceCalls'[c] = serviceCalls[c]]_vars

\* with the credential, a call of each function has thrown after its one
\* request and another has returned
C24_Witness ==
  /\ apiKey
  /\ \E c \in DOMAIN serviceCalls :
       /\ serviceCalls[c] = [fn |-> "analyzeIssue", pc |-> "thrown", requests |-> 1]
  /\ \E c \in DOMAIN serviceCalls :
       /\ serviceCalls[c] = [fn |-> "analyzeSpecificItem", pc |-> "thrown", requests |-> 1]
  /\ \E c \in DOMAIN serviceCalls : serviceCalls[c].pc = "returned"

\* C25: every step leaves the stored log as it was or extends it at the end:
\* no entry is removed, changed or moved; the log page lists the entries
\* newest first, and listing them changes nothing (the stored log read back
\* from the listing is the stored log).
C25_AppendOnly ==
  /\ [][IsPrefix(logs, logs')]_vars
  /\ [](/\ Len(LogsView(logs)) = Len(logs)
        /\ LogsView(logs)[1] = logs[Len(logs)]
        /\ LogsView(LogsView(logs)) = logs)

\* searches, a drain run and a failure have been logged
C25_Witness ==
  /\ CountLog(logs, "New search") >= 1
  /\ CountLog(logs, "Auto-Generation Started") >= 1
  /\ \E k \in DOMAIN logs : logs[k].type \in {"error", "warning"}
  /\ Len(logs) >= 6

\* C26: a step clears the staged attachment only if it is the restoration
\* effect or the remove button; a search or load-more submit, its response or
\* failure, a rejected oversize file and a navigation leave the staged
\* attachment as it is; the staged attachment is one file, one link or none.
C26_AttachmentKept ==
  /\ [](attachment \in {NoAttachment, LinkAttachment}
          \cup {FileAttachment(size) : size \in FileSizes})
  /\ [][/\ (attachment # NoAttachment /\ attachment' = NoAttachment)
             => (HomeRestoreEffect \/ RemoveAttachment)
        /\ \A m \in BOOLEAN : HandleSearch(m) => attachment' = attachment
        /\ \A k \in DOMAIN searches :
             /\ SearchFails(k) => attachment' = attachment
             /\ \A n \in 1..MaxNewItems : SearchSucceeds(k, n) => attachment' = attachment
        /\ \A size \in FileSizes :
             (HandleFileSelect(size) /\ size > MaxFileBytes) => attachment' = attachment
        /\ \A p \in Pages : Navigate(p) => attachment' = attachment]_vars

\* pixel row h of the canvas lies on the page
OnPage(page, h) ==
  /\ page.sourceY <= h * Den
  /\ (h + 1) * Den <= page.sourceY + (page.rows * Den)

\* C27: when an export has saved its file, every pixel row of the rendered
\* canvas, whatever its height, lies on exactly one page of the file.
C27_RowsOnce ==
  pdf.saved
  => \A h \in 0..(pdf.height - 1) :
       Cardinality({k \in DOMAIN pdf.pages : OnPage(pdf.pages[k], h)}) = 1

\* C28: when an export attempt is over, whether html2canvas resolved or
\* rejected, the exporting flag is false, no container of an export is left
\* in document.body and the export can be started again; no step of an
\* export changes the current document or the history.
C28_ExportRecoverable ==
  /\ [](pdf.pc = "idle" => (~isExportingPdf /\ containers = 0))
  /\ [][currentResult' = currentResult /\ history' = history]_vars

\* C29: in the trace of a run, a backoff wait on behalf of an item is the last
\* event while the run is still waiting, and is otherwise followed at once by
\* a request for that item: the run never leaves an item after a backoff wait.
C29_BackoffThenRetry ==
  \A r \in DOMAIN runs :
    LET t == runs[r].trace IN
    \A k \in DOMAIN t :
      (t[k].ev = "wait" /\ t[k].item # 0)
      => IF k = Len(t)
           THEN runs[r].pc = "backoff"
           ELSE t[k + 1] = Event("req", t[k].item, 0)

\* the item identities the events of a trace are about
TraceItems(t) == {t[k].item : k \in DOMAIN t} \ {0}

\* C30: in the single view that stays mounted, no run starts while a run is
\* active, so that the commits of a run's patches start none and at most one
\* run is active; a run that starts captures the items of the current document
\* lacking details at that moment, its batch never changes, its requests are
\* for items of its batch only, and when it ends it has requested every item
\* of its batch.
C30_RunOwnsBatch ==
  /\ [](Cardinality(ActiveRuns) <= 1)
  /\ [](\A r \in DOMAIN runs :
          /\ TraceItems(runs[r].trace) \subseteq {runs[r].items[j].id : j \in DOMAIN runs[r].items}
          /\ runs[r].pc = "done"
               => \A j \in DOMAIN runs[r].items : ReqCount(runs[r], runs[r].items[j].id) >= 1)
  /\ [][/\ ActiveRuns # {} => Len(runs') = Len(runs)
        /\ Len(runs') > Len(runs)
             => /\ Len(runs') = Len(runs) + 1
                /\ runs'[Len(runs')].items = Missing(currentResult)
        /\ \A r \in DOMAIN runs : runs'[r].items = runs[r].items]_vars

\* the one run of the view has patched two of its three items, the effects of
\* both commits have run, and the third item is still to be requested
C30_Witness ==
  /\ Len(runs) = 1
  /\ Len(runs[1].items) = 3
  /\ runs[1].pc = "cooldown"
  /\ runs[1].i = 2
  /\ pendingEffect = "none"
  /\ DetailsOf(currentResult, runs[1].items[1].id) # NoDetails
  /\ DetailsOf(currentResult, runs[1].items[2].id) # NoDetails
  /\ DetailsOf(currentResult, runs[1].items[3].id) = NoDetails

\* the characters of pattern stand in message, one after the other
Within(message, pattern) ==
  \E k \in 1..Len(message) :
    \A j \in 1..Len(pattern) :
      k + j - 1 <= Len(message) /\ message[k + j - 1] = pattern[j]

\* status 429, or a message containing "429" or "quota"
RateLimitError(e) ==
  \/ e.status = 429
  \/ Within(e.message, <<"4", "2", "9">>)
  \/ Within(e.message, <<"q", "u", "o", "t", "a">>)

C32_HistoryOrderKept ==
  [][IsPrefix(HistIds(history), HistIds(history'))]_vars

\* the history holds two documents, and the first of them holds a page that
\* was requested after the second document was
C32_Witness ==
  /\ Len(history) = 2
  /\ history[1].id # history[2].id
  /\ history[1].bestModel > history[2].bestModel
  /\ Len(history[1].suggestions) > 1

\* there is no document, or every item of the document has details
NothingToDrain(doc) ==
  \/ doc = NullResult
  \/ \A j \in DOMAIN doc.suggestions : doc.suggestions[j].details # NoDetails

\* C33: a step that opens the report screen, or that runs the trigger effect
\* of the open report screen, while there is no current document or every item
\* of the current document has details, starts no drain run, adds no event to
\* the trace of any run (no request), writes no log entry and does not set the
\* generating flag.
C33_NothingToDrain ==
  [][(/\ NothingToDrain(currentResult)
      /\ currentPage' = "report"
      /\ \/ currentPage # "report"
         \/ pendingEffect # "none")
     => /\ Len(runs') = Len(runs)
        /\ \A r \in DOMAIN runs : runs'[r].trace = runs[r].trace
        /\ logs' = logs
        /\ isAutoGenerating' => isAutoGenerating]_vars

\* the report screen is open on a document whose items all have details, its
\* trigger effect has run, and no drain run was ever started
C33_Witness ==
  /\ currentPage = "report"
  /\ pendingEffect = "none"
  /\ currentResult # NullResult
  /\ currentResult.suggestions # <<>>
  /\ NothingToDrain(currentResult)
  /\ runs = <<>>
  /\ ~isAutoGenerating

\* C34: at most one on-demand detail fetch is in flight in every reachable
\* state; a step taken while loadingItemId is set starts no fetch, and a step
\* that starts a fetch starts it for an item without details; the response of
\* a fetch, a result or an error, clears loadingItemId of the view that
\* started it.
C34_OneFetchInFlight ==
  /\ [](Len(clicks) <= 1)
  /\ [][/\ loadingItemId # 0 => Len(clicks') <= Len(clicks)
        /\ Len(clicks') > Len(clicks)
             => /\ loadingItemId' = clicks'[Len(clicks')].item
                /\ DetailsOf(currentResult, clicks'[Len(clicks')].item) = NoDetails
        /\ \A k \in DOMAIN clicks :
             ((ItemClickSucceeds(k) \/ ItemClickFails(k)) /\ clicks[k].mounted)
             => loadingItemId' = 0]_vars

\* C34 without its first part: the guard and the clearing of loadingItemId
C34_GuardAndClear ==
  [][/\ loadingItemId # 0 => Len(clicks') <= Len(clicks)
     /\ Len(clicks') > Len(clicks)
          => /\ loadingItemId' = clicks'[Len(clicks')].item
             /\ DetailsOf(currentResult, clicks'[Len(clicks')].item) = NoDetails
     /\ \A k \in DOMAIN clicks :
          ((ItemClickSucceeds(k) \/ ItemClickFails(k)) /\ clicks[k].mounted)
          => loadingItemId' = 0]_vars

\* C35: at most one broad-analysis request (search or load-more) is
\* outstanding in every reachable state; a step taken while isLoading is set
\* starts none, a step that starts one sets isLoading, and the response of a
\* request, a result or an error, clears isLoading of the view that started it.
C35_OneSearchOutstanding ==
  /\ [](Len(searches) <= 1)
  /\ [][/\ isLoading => Len(searches') <= Len(searches)
        /\ Len(searches') > Len(searches) => isLoading'
        /\ \A k \in DOMAIN searches :
             \A n \in 1..MaxNewItems :
               ((SearchSucceeds(k, n) \/ SearchFails(k)) /\ searches[k].mounted)
               => ~isLoading']_vars

\* C35 without its first part: the guard and the clearing of isLoading
C35_GuardAndClear ==
  [][/\ isLoading => Len(searches') <= Len(searches)
     /\ Len(searches') > Len(searches) => isLoading'
     /\ \A k \in DOMAIN searches :
          \A n \in 1..MaxNewItems :
            ((SearchSucceeds(k, n) \/ SearchFails(k)) /\ searches[k].mounted)
            => ~isLoading']_vars

\* C36: while a drain run of the open report screen is under way, total is
\* the size of its batch and completed is the number of items the run has
\* left, between 0 and total; a step of the view leaves total as it is, and
\* adds one to completed when the run leaves an item, succeeded or abandoned,
\* and leaves completed as it is otherwise.
C36_Progress ==
  /\ [](\A r \in DOMAIN runs :
          (runs[r].mounted /\ runs[r].pc # "done")
          => /\ genProgress.total = Len(runs[r].items)
             /\ genProgress.current = runs[r].i
             /\ 0 <= genProgress.current
             /\ genProgress.current <= genProgress.total)
  /\ [][\A r \in DOMAIN runs :
          (runs[r].mounted /\ runs[r].pc # "done" /\ currentPage' = currentPage)
          => /\ genProgress'.total = genProgress.total
             /\ genProgress'.current =
                  IF runs'[r].i = runs[r].i + 1
                    THEN genProgress.current + 1
                    ELSE genProgress.current
             /\ runs'[r].i = runs[r].i + 1
                  <=> LET x == ItemOf(runs[r]).id IN
                      \/ Len(EventsOf(runs'[r].trace, "ok", x))
                           > Len(EventsOf(runs[r].trace, "ok", x))
                      \/ Len(EventsOf(runs'[r].trace, "err", x))
                           > Len(EventsOf(runs[r].trace, "err", x))
                      \/ /\ runs[r].pc = "backoff"
                         /\ runs[r].retries >= maxRetries
                         /\ runs'[r].pc # "backoff"]_vars

\* a run over three items has ended with completed = total = 3 although its
\* second item failed and was abandoned
C36_Witness ==
  \E r \in DOMAIN runs :
    /\ runs[r].pc = "done"
    /\ r = Len(runs)
    /\ Len(runs[r].items) = 3
    /\ Responses(runs[r], runs[r].items[2].id) = <<"err">>
    /\ genProgress = [current |-> 3, total |-> 3]

\* C37: while the query is empty or white space only and no attachment is
\* staged, no step of the home screen other than the arrival of a response
\* starts a request, writes a log entry or changes the current document, the
\* history, the error or the loading flag: a submit does nothing.
C37_BlankSubmit ==
  [][(/\ query \in {"", " "}
      /\ attachment = NoAttachment
      /\ Len(searches') >= Len(searches))
     => UNCHANGED <<searches, logs, currentResult, history, error, isLoading>>]_vars

\* a document is shown, the query is white space only, no attachment is
\* staged and nothing is loading: the send and load-more buttons are enabled
C37_Witness ==
  /\ currentPage = "home"
  /\ query = " "
  /\ attachment = NoAttachment
  /\ ~isLoading
  /\ currentResult # NullResult
  /\ searches = <<>>

\* ceil(a / b) for positive b
Ceil(a, b) == (a + b - 1) \div b

\* C38: a document saved by PrintControls for an image of height H has
\* exactly ceil(H / pageHeight) pages, and every page shows rows of the
\* image: the image on the page starts less than H above the top of the page.
C38_PrintPageCount ==
  printPdf.saved
  => LET H == PrintImgHeight(printPdf.width, printPdf.height)
         pageHeight == PrintPageHeight(printPdf.width)
     IN /\ Len(printPdf.pages) = Ceil(H, pageHeight)
        /\ \A k \in DOMAIN printPdf.pages : 0 - printPdf.pages[k] < H

\* C38 for the images whose height is no exact multiple of the page height
C38_OffMultiples ==
  printPdf.saved
  => LET H == PrintImgHeight(printPdf.width, printPdf.height)
         pageHeight == PrintPageHeight(printPdf.width)
     IN H % pageHeight # 0
        => /\ Len(printPdf.pages) = Ceil(H, pageHeight)
           /\ \A k \in DOMAIN printPdf.pages : 0 - printPdf.pages[k] < H

\* for the exact multiples the document has one page more, and its last page
\* shows no row of the image
C38_OnMultiples ==
  printPdf.saved
  => LET H == PrintImgHeight(printPdf.width, printPdf.height)
         pageHeight == PrintPageHeight(printPdf.width)
     IN H % pageHeight = 0
        => /\ Len(printPdf.pages) = Ceil(H, pageHeight) + 1
           /\ printPdf.pages[Len(printPdf.pages)] = 0 - H

====
